---------------------------- MODULE Spec2Model ----------------------------
(***************************************************************************)
(* Model of the multibox-planner recommendation engine                     *)
(* (src/app/recommender.py, src/app/templates.py).                         *)
(*                                                                         *)
(* A request is the argument record of one call.  Slot indices are 1-based *)
(* here (TLA+ sequences); the code's index i is i+1 in the model.          *)
(***************************************************************************)
EXTENDS Integers, Sequences, FiniteSets, TLC

VARIABLES
    req,            \* the arguments of the call
    pc,             \* "ready" before the call; "forced", "returned", "rendered" or
                    \* "listed" after it
    forced_slots,   \* map slot index -> allowed classes (force_constraints_into_slots)
    slot_pools,     \* per-slot candidate pools the product is taken over
    scored,         \* comps handed to score_comp_explain, in call order
    results,        \* the returned list of <<score, comp>>
    filtered_defaults,  \* the default comps the page falls back to, <<rank, comp>>
    class_list,     \* the list get_available_classes returned
    detail          \* the detail record of a direct score_comp_explain call

vars == <<req, pc, forced_slots, slot_pools, scored, results, filtered_defaults, class_list,
          detail>>

---------------------------------------------------------------------------
(* Class-trait tables, recommender.py:21-38 *)

PORTERS == {"Wizard", "Druid"}
RUN_SPEED == {"Bard", "Druid", "Shaman", "Ranger"}
CHARMERS == {"Enchanter"}
PET_DPS == {"Magician", "Necromancer", "Beastlord"}
KITERS == {"Necromancer", "Druid", "Wizard", "Bard", "Ranger"}
SLOWERS == {"Shaman", "Enchanter"}
CCERS == {"Enchanter", "Bard"}
SNARERS == {"Wizard", "Druid", "Ranger"}
MELEE_DPS == {"Monk", "Rogue", "Ranger", "Berserker"}
CASTER_DPS == {"Wizard", "Magician", "Necromancer", "Enchanter", "Druid"}
TANKS == {"Warrior", "Shadowknight", "Paladin"}
HEALERS == {"Cleric", "Druid", "Shaman"}
PET_TANKERS == {"Magician", "Necromancer", "Beastlord"}

(* Every class the trait tables name, in the order Python's sorted() gives. *)
ClassOrder ==
    <<"Bard", "Beastlord", "Berserker", "Cleric", "Druid", "Enchanter",
      "Magician", "Monk", "Necromancer", "Paladin", "Ranger", "Rogue",
      "Shadowknight", "Shaman", "Warrior", "Wizard">>

Classes == {ClassOrder[i] : i \in 1..Len(ClassOrder)}

(* sorted(S) for a set of classes *)
Sorted(S) == SelectSeq(ClassOrder, LAMBDA c : c \in S)

Range(s) == {s[i] : i \in 1..Len(s)}

---------------------------------------------------------------------------
(* Templates, templates.py:6-21 and the caller's overrides, app.py:488-505 *)

TEMPLATES ==
    [n \in 2..6 |->
        CASE n = 2 -> <<"tank", "healer">>
          [] n = 3 -> <<"tank", "healer", "dps">>
          [] n = 4 -> <<"tank", "healer", "slow", "dps">>
          [] n = 5 -> <<"tank", "healer", "slow", "dps", "dps">>
          [] n = 6 -> <<"tank", "healer", "slow", "cc", "dps", "dps">>]

LEVELING_6BOX_TEMPLATE == <<"tank", "healer", "cc", "dps", "dps", "dps">>

HARDCORE_TEMPLATES ==
    [n \in 4..6 |->
        CASE n = 4 -> <<"tank", "healer", "slow", "cc">>
          [] n = 5 -> <<"tank", "healer", "slow", "cc", "dps">>
          [] n = 6 -> <<"tank", "healer", "slow", "cc", "dps", "dps">>]

get_template(box_size, focus) ==
    IF focus = "solo_raid" /\ box_size >= 4 /\ box_size \in DOMAIN HARDCORE_TEMPLATES
    THEN HARDCORE_TEMPLATES[box_size]
    ELSE IF box_size # 6 THEN TEMPLATES[box_size]
    ELSE IF focus = "leveling" THEN LEVELING_6BOX_TEMPLATE
    ELSE TEMPLATES[6]

(* select_template with the charm override taken at every size from 3 up *)
select_template_charm_any_size(box_size, focus, two_box_mode, kiting_style, require_charm) ==
    IF box_size = 2 THEN
        CASE two_box_mode = "traditional" -> <<"tank", "healer">>
          [] two_box_mode = "pet_tank" -> <<"pet_tank", "pet_partner">>
          [] two_box_mode = "ench_charm_tank" -> <<"charm_tank", "charm_partner">>
          [] two_box_mode = "kiting" /\ kiting_style = "swarm" ->
                <<"kiter_swarm", "kite_partner_swarm">>
          [] two_box_mode = "kiting" /\ kiting_style # "swarm" ->
                <<"kiter_fear_snare", "kite_partner_fear_snare">>
          [] OTHER -> get_template(box_size, focus)
    ELSE IF box_size >= 3 /\ require_charm THEN <<"charm_tank", "healer", "dps">>
    ELSE get_template(box_size, focus)

(* The template the caller passes on for its selections. *)
select_template(box_size, focus, two_box_mode, kiting_style, require_charm) ==
    IF box_size = 2 THEN
        CASE two_box_mode = "traditional" -> <<"tank", "healer">>
          [] two_box_mode = "pet_tank" -> <<"pet_tank", "pet_partner">>
          [] two_box_mode = "ench_charm_tank" -> <<"charm_tank", "charm_partner">>
          [] two_box_mode = "kiting" /\ kiting_style = "swarm" ->
                <<"kiter_swarm", "kite_partner_swarm">>
          [] two_box_mode = "kiting" /\ kiting_style # "swarm" ->
                <<"kiter_fear_snare", "kite_partner_fear_snare">>
          [] OTHER -> get_template(box_size, focus)
    ELSE IF box_size = 3 /\ require_charm THEN <<"charm_tank", "healer", "dps">>
    ELSE get_template(box_size, focus)

Focuses == {"leveling", "balanced", "solo_raid"}
TwoBoxModes == {"traditional", "pet_tank", "ench_charm_tank", "kiting"}
KitingStyles == {"swarm", "fear_snare"}

(* Every template the caller can select. *)
TemplateSet ==
    {select_template(n, f, m, k, ch) :
        n \in 2..6, f \in Focuses, m \in TwoBoxModes, k \in KitingStyles, ch \in BOOLEAN}

---------------------------------------------------------------------------
(* Slot forcing, recommender.py:592-728 *)

(* [i for i, s in enumerate(template_slots) if s in names], ascending *)
IndicesOf(template_slots, names) ==
    SelectSeq([i \in 1..Len(template_slots) |-> i],
              LAMBDA i : template_slots[i] \in names)

RECURSIVE IndicesInOrder(_, _)
(* indices.extend(...) for each slot name of `order` in turn *)
IndicesInOrder(template_slots, order) ==
    IF order = <<>> THEN <<>>
    ELSE IndicesOf(template_slots, {Head(order)})
            \o IndicesInOrder(template_slots, Tail(order))

FlexOrder ==
    <<"healer", "slow", "cc", "dps", "pet_partner", "charm_partner",
      "kite_partner_swarm", "kite_partner_fear_snare", "kite_partner", "support">>

NonFlex == {"tank", "charm_tank"}

AllSlotNames == UNION {Range(t) : t \in TemplateSet} \cup Range(FlexOrder)

(* _flex_slot_indices with the non_flex exclusion of line 606 dropped *)
flex_slot_indices_keeps_tank(template_slots, hardcore_required) ==
    IF hardcore_required THEN IndicesOf(template_slots, {"dps"})
    ELSE IF template_slots = <<"charm_tank", "healer", "dps">> THEN <<3, 2>>
    ELSE IndicesInOrder(template_slots, FlexOrder)
            \o IndicesOf(template_slots, AllSlotNames \ Range(FlexOrder))

(* _flex_slot_indices with the hardcore branch of lines 594-596 dropped *)
flex_slot_indices_ignores_hardcore(template_slots, hardcore_required) ==
    IF template_slots = <<"charm_tank", "healer", "dps">> THEN <<3, 2>>
    ELSE IndicesInOrder(template_slots, FlexOrder)
            \o IndicesOf(template_slots, AllSlotNames \ (Range(FlexOrder) \cup NonFlex))

_flex_slot_indices(template_slots, hardcore_required) ==
    IF hardcore_required THEN IndicesOf(template_slots, {"dps"})
    ELSE IF template_slots = <<"charm_tank", "healer", "dps">> THEN <<3, 2>>
    ELSE IndicesInOrder(template_slots, FlexOrder)
            \o IndicesOf(template_slots, AllSlotNames \ (Range(FlexOrder) \cup NonFlex))

(* _build_requirement_sets that also forces a porter when ports are required *)
_build_requirement_sets_forces_ports(available_set, require_ports, require_run_speed, require_charm, require_pet_heavy, require_kiting, already_satisfied) ==
    LET reqs ==
            (IF require_ports /\ (PORTERS \cap already_satisfied) = {}
                THEN <<PORTERS \cap available_set>> ELSE <<>>)
         \o (IF require_charm /\ (CHARMERS \cap already_satisfied) = {}
                THEN <<CHARMERS \cap available_set>> ELSE <<>>)
         \o (IF require_pet_heavy /\ (PET_DPS \cap already_satisfied) = {}
                THEN <<PET_DPS \cap available_set>> ELSE <<>>)
         \o (IF require_kiting /\ (KITERS \cap already_satisfied) = {}
                THEN <<KITERS \cap available_set>> ELSE <<>>)
    IN SelectSeq(reqs, LAMBDA r : r # {})

_build_requirement_sets(available_set, require_ports, require_run_speed, require_charm, require_pet_heavy, require_kiting, already_satisfied) ==
    LET reqs ==
            (IF require_charm /\ (CHARMERS \cap already_satisfied) = {}
                THEN <<CHARMERS \cap available_set>> ELSE <<>>)
         \o (IF require_pet_heavy /\ (PET_DPS \cap already_satisfied) = {}
                THEN <<PET_DPS \cap available_set>> ELSE <<>>)
         \o (IF require_kiting /\ (KITERS \cap already_satisfied) = {}
                THEN <<KITERS \cap available_set>> ELSE <<>>)
    IN SelectSeq(reqs, LAMBDA r : r # {})

RECURSIVE Combinations(_, _, _)
(* itertools.combinations(range(lo, n+1), k): ascending index tuples, lexicographic *)
Combinations(lo, n, k) ==
    IF k = 0 THEN << <<>> >>
    ELSE IF lo > n THEN <<>>
    ELSE LET with == Combinations(lo + 1, n, k - 1)
         IN [j \in 1..Len(with) |-> <<lo>> \o with[j]] \o Combinations(lo + 1, n, k)

RECURSIVE Intersection(_, _)
Intersection(reqs, idxs) ==
    IF Len(idxs) = 1 THEN reqs[idxs[1]]
    ELSE reqs[idxs[1]] \cap Intersection(reqs, Tail(idxs))

RECURSIVE BestOfSize(_, _, _)
(* the inner loop over the combinations of one size: best = [pool, idxs] *)
BestOfSize(reqs, combos, best) ==
    IF combos = <<>> THEN best
    ELSE LET idxs == Head(combos)
             inter == Intersection(reqs, idxs)
             next ==
                IF inter = {} THEN best
                ELSE IF Len(idxs) > Len(best.idxs) THEN [pool |-> inter, idxs |-> idxs]
                ELSE IF Len(idxs) = Len(best.idxs) /\ best.idxs # <<>>
                        /\ Cardinality(inter) < Cardinality(best.pool)
                     THEN [pool |-> inter, idxs |-> idxs]
                ELSE best
         IN BestOfSize(reqs, Tail(combos), next)

RECURSIVE BestFromSize(_, _, _)
(* for k in [3, 2, 1]: ... if best_idxs: return *)
BestFromSize(reqs, k, best) ==
    IF k = 0 THEN best
    ELSE LET b == BestOfSize(reqs, Combinations(1, Len(reqs), k), best)
         IN IF b.idxs # <<>> THEN b ELSE BestFromSize(reqs, k - 1, b)

(* _best_intersection_group that looks at single requirement sets only *)
_best_intersection_group_singles(reqs) ==
    BestFromSize(reqs, 1, [pool |-> {}, idxs |-> <<>>])

_best_intersection_group(reqs) ==
    BestFromSize(reqs, 3, [pool |-> {}, idxs |-> <<>>])

(* for i in sorted(idxs, reverse=True): del reqs[i] *)
DeleteAt(reqs, idxs) ==
    LET keep == SelectSeq([i \in 1..Len(reqs) |-> i], LAMBDA i : i \notin Range(idxs))
    IN [j \in 1..Len(keep) |-> reqs[keep[j]]]

RECURSIVE ForceLoop(_, _, _, _)
(* while reqs and slot_cursor < len(slot_order) *)
ForceLoop(reqs, slot_order, slot_cursor, forced) ==
    IF reqs = <<>> \/ slot_cursor > Len(slot_order) THEN forced
    ELSE LET g == _best_intersection_group(reqs)
         IN IF g.idxs = <<>> \/ g.pool = {} THEN forced
            ELSE ForceLoop(DeleteAt(reqs, g.idxs), slot_order, slot_cursor + 1,
                           (slot_order[slot_cursor] :> g.pool) @@ forced)

force_constraints_into_slots(template_slots, available, require_ports, require_run_speed, require_charm, require_pet_heavy, require_kiting, already_satisfied, hardcore_required) ==
    LET reqs == _build_requirement_sets(Range(available), require_ports, require_run_speed,
                    require_charm, require_pet_heavy, require_kiting, already_satisfied)
        slot_order == _flex_slot_indices(template_slots, hardcore_required)
    IN IF reqs = <<>> THEN <<>>
       ELSE IF slot_order = <<>> THEN <<>>
       ELSE ForceLoop(reqs, slot_order, 1, <<>>)

---------------------------------------------------------------------------
(* Rating store and scoring helpers, recommender.py:10-19, 256-332 *)

CATEGORIES ==
    <<"dps", "healing", "tanking", "pet_tanking", "solo", "sustain", "kite", "charm">>

CatIndex(cat) == CHOOSE i \in 1..Len(CATEGORIES) : CATEGORIES[i] = cat

(* One row of class_ratings.csv per class: the scores in CATEGORIES order. *)
CkvRows ==
    [Warrior |-> <<60, 0, 100, 0, 20, 60, 0, 0>>,
     Shadowknight |-> <<60, 0, 90, 0, 40, 70, 20, 0>>,
     Paladin |-> <<40, 20, 90, 0, 40, 70, 0, 0>>,
     Cleric |-> <<20, 100, 20, 0, 20, 80, 0, 0>>,
     Druid |-> <<60, 70, 0, 0, 80, 70, 90, 30>>,
     Shaman |-> <<50, 80, 10, 20, 60, 80, 20, 0>>,
     Enchanter |-> <<50, 0, 0, 20, 60, 60, 30, 100>>,
     Bard |-> <<50, 10, 20, 0, 80, 60, 100, 40>>,
     Wizard |-> <<90, 0, 0, 0, 60, 40, 80, 0>>,
     Magician |-> <<90, 0, 0, 90, 80, 60, 20, 0>>,
     Necromancer |-> <<80, 10, 0, 80, 100, 80, 90, 30>>,
     Monk |-> <<90, 0, 40, 0, 60, 50, 10, 0>>,
     Rogue |-> <<100, 0, 10, 0, 20, 30, 0, 0>>,
     Ranger |-> <<70, 10, 30, 0, 50, 40, 70, 0>>]

LuclinRows ==
    [Beastlord |-> <<80, 20, 20, 70, 70, 60, 10, 0>>,
     Ranger |-> <<90, 10, 30, 0, 50, 40, 70, 0>>] @@ CkvRows

(* The rating stores a request may run against: a populated one and the  *)
(* empty one (every lookup defaults to 0).                                *)
RatingStores == {"sample", "empty"}

Ratings(store) ==
    IF store = "sample" THEN [ckv |-> CkvRows, luclin |-> LuclinRows, pop |-> LuclinRows]
    ELSE <<>>

get_score(ratings, era, cls, cat) ==
    IF era \in DOMAIN ratings /\ cls \in DOMAIN ratings[era]
    THEN ratings[era][cls][CatIndex(cat)]
    ELSE 0

melee_penalty(boxing_mode, cls, era) ==
    IF boxing_mode # "manual" THEN 0
    ELSE IF cls \notin MELEE_DPS THEN 0
    ELSE IF cls = "Ranger" /\ era \in {"luclin", "pop"} THEN 0
    ELSE 15

start_condition_bonus(start, cls) ==
    IF start # "fresh" THEN 0
    ELSE IF cls \in PET_DPS THEN 10
    ELSE IF cls = "Monk" THEN 6
    ELSE 0

_manual_partner_allowed(cls) == cls \notin TANKS /\ cls \notin MELEE_DPS

(* int(x / d) for integers: Python's int() truncates toward zero *)
TruncDiv(x, d) == IF x >= 0 THEN x \div d ELSE -((-x) \div d)

(* list.sort(reverse=True, key=score) is stable: equal scores keep their order. *)
(* s is a sequence of <<score, item>>; the result is s sorted by score,        *)
(* descending, ties in the order of s.                                         *)
SortDesc(s) ==
    LET tagged == [i \in 1..Len(s) |-> <<s[i][1], i>>]
        srt == SortSeq(tagged, LAMBDA a, b : a[1] > b[1] \/ (a[1] = b[1] /\ a[2] < b[2]))
    IN [r \in 1..Len(s) |-> s[srt[r][2]]]

(* scored.sort(reverse=True, key=lambda x: x[0]); return [c for _, c in scored[:n]] *)
TopN(scored_list, n) ==
    LET srt == SortDesc(scored_list)
        m == IF Len(srt) < n THEN Len(srt) ELSE n
    IN [i \in 1..m |-> srt[i][2]]

Bonus(cond, n) == IF cond THEN n ELSE 0

---------------------------------------------------------------------------
(* Role pools, recommender.py:338-542 *)

role_candidates(available, ratings, era, role, boxing_mode, start, require_charm) ==
    LET avail == available
        In(S) == SelectSeq(avail, LAMBDA c : c \in S)
        Top(use, Key(_), n) == TopN([i \in 1..Len(use) |-> <<Key(use[i]), use[i]>>], n)
        dpsOf(c) == get_score(ratings, era, c, "dps") - melee_penalty(boxing_mode, c, era)
        healOf(c) == get_score(ratings, era, c, "healing")
        half(c) == TruncDiv(start_condition_bonus(start, c) * 5, 10)
        fourTenths(c) == TruncDiv(start_condition_bonus(start, c) * 4, 10)
        top_by(cat, n) ==
            Top(avail,
                 LAMBDA c : get_score(ratings, era, c, cat) + start_condition_bonus(start, c)
                            - Bonus(cat = "dps", melee_penalty(boxing_mode, c, era))
                            + Bonus(cat = "dps" /\ require_charm /\ c = "Enchanter", 30),
                 n)
        manual_use ==
            IF boxing_mode = "manual"
            THEN SelectSeq(avail, LAMBDA c : _manual_partner_allowed(c)) ELSE avail
    IN CASE role = "tank" ->
                Top(In(TANKS), LAMBDA c : get_score(ratings, era, c, "tanking"), 6)
         [] role = "healer" ->
                Top(In(HEALERS), LAMBDA c : get_score(ratings, era, c, "healing"), 6)
         [] role = "slow" ->
                IF In(SLOWERS) # <<>> THEN In(SLOWERS) ELSE top_by("solo", 5)
         [] role = "cc" ->
                IF In(CCERS) # <<>> THEN In(CCERS) ELSE top_by("solo", 5)
         [] role = "pet_tank" ->
                Top(In(PET_TANKERS), LAMBDA c : get_score(ratings, era, c, "pet_tanking"), 6)
         [] role = "charm_tank" ->
                IF "Enchanter" \notin Range(avail) THEN <<>> ELSE <<"Enchanter">>
         [] role = "charm_partner" ->
                Top(SelectSeq(manual_use, LAMBDA c : c # "Enchanter"),
                     LAMBDA c : TruncDiv(85 * dpsOf(c) + 15 * healOf(c), 100)
                                + Bonus(c \in SNARERS, 15) + Bonus(c \in RUN_SPEED, 6)
                                + Bonus(c \in PORTERS, 5) + half(c),
                     10)
         [] role = "pet_partner" ->
                Top(manual_use,
                     LAMBDA c : TruncDiv(85 * dpsOf(c) + 15 * healOf(c), 100)
                                + Bonus(c \in SLOWERS, 12) + Bonus(c \in PORTERS, 5)
                                + Bonus(c \in RUN_SPEED, 6) + Bonus(c \in CCERS, 5)
                                + Bonus(c \in PET_DPS, 8) + half(c),
                     10)
         [] role = "kiter" ->
                Top(In(KITERS), LAMBDA c : get_score(ratings, era, c, "kite"), 8)
         [] role = "kiter_swarm" ->
                IF "Bard" \notin Range(avail) THEN <<>> ELSE <<"Bard">>
         [] role = "kiter_fear_snare" ->
                Top(In({"Necromancer", "Druid", "Wizard", "Ranger"}),
                     LAMBDA c : get_score(ratings, era, c, "kite"), 6)
         [] role = "kite_partner_swarm" ->
                Top(manual_use,
                     LAMBDA c : TruncDiv(60 * healOf(c) + 40 * dpsOf(c), 100)
                                + Bonus(c \in RUN_SPEED, 10) + Bonus(c \in SLOWERS, 6)
                                + Bonus(c \in PORTERS, 4) + fourTenths(c),
                     10)
         [] role = "kite_partner_fear_snare" ->
                Top(manual_use,
                     LAMBDA c : TruncDiv(85 * dpsOf(c) + 15 * healOf(c), 100)
                                + Bonus(c \in RUN_SPEED, 8) + Bonus(c \in PORTERS, 6)
                                + Bonus(c \in PET_DPS, 8) + Bonus(c \in SLOWERS, 6)
                                + fourTenths(c),
                     10)
         [] role = "support" ->
                Top(avail,
                     LAMBDA c : TruncDiv(65 * healOf(c)
                                         + 45 * get_score(ratings, era, c, "sustain")
                                         + 35 * get_score(ratings, era, c, "solo")
                                         + 20 * get_score(ratings, era, c, "kite")
                                         + 15 * get_score(ratings, era, c, "charm"), 100)
                                + Bonus(c \in SLOWERS, 14) + Bonus(c \in CCERS, 8)
                                + Bonus(c \in PORTERS, 6) + Bonus(c \in RUN_SPEED, 6)
                                + half(c)
                                + Bonus(require_charm /\ c = "Enchanter", 18)
                                - Bonus(boxing_mode = "manual" /\ c \in MELEE_DPS, 6),
                     10)
         [] role = "dps" -> top_by("dps", 10)
         [] OTHER -> top_by("solo", 6)

---------------------------------------------------------------------------
(* Hard filters, recommender.py:192-223 *)

(* comp_matches_filters with the exclude test of lines 194-195 dropped *)
comp_matches_filters_no_exclude(comp, must_include, exclude) ==
    LET comp_set == Range(comp)
    IN IF ~(must_include \subseteq comp_set) THEN FALSE ELSE TRUE

(* comp_matches_filters with the must-include test of lines 196-197 dropped *)
comp_matches_filters_no_must(comp, must_include, exclude) ==
    LET comp_set == Range(comp)
    IN IF comp_set \cap exclude # {} THEN FALSE ELSE TRUE

comp_matches_filters(comp, must_include, exclude) ==
    LET comp_set == Range(comp)
    IN IF comp_set \cap exclude # {} THEN FALSE
       ELSE IF ~(must_include \subseteq comp_set) THEN FALSE
       ELSE TRUE

comp_matches_constraints(comp, require_ports, require_run_speed, require_charm, require_pet_heavy, require_kiting) ==
    LET comp_set == Range(comp)
    IN IF require_ports /\ PORTERS \cap comp_set = {} THEN FALSE
       ELSE IF require_run_speed /\ RUN_SPEED \cap comp_set = {} THEN FALSE
       ELSE IF require_charm /\ "Enchanter" \notin comp_set THEN FALSE
       ELSE IF require_pet_heavy /\ PET_DPS \cap comp_set = {} THEN FALSE
       ELSE IF require_kiting /\ KITERS \cap comp_set = {} THEN FALSE
       ELSE TRUE

(* keeps the default comps that pass both filters, in rank order *)
filter_default_comps(defaults_for_era_and_size, must_include, exclude, require_ports, require_run_speed, require_charm, require_pet_heavy, require_kiting) ==
    SelectSeq(defaults_for_era_and_size,
              LAMBDA d : /\ comp_matches_filters(d[2], must_include, exclude)
                         /\ comp_matches_constraints(d[2], require_ports, require_run_speed,
                                require_charm, require_pet_heavy, require_kiting))

---------------------------------------------------------------------------
(* Slot-aware scoring, recommender.py:281-324, 734-962.                    *)
(* Scores are kept in hundredths (every weight is a multiple of 0.05), so  *)
(* the float sums of the code are exact integers here; Hundredths = 100.   *)

CountIn(comp, S) == Cardinality({i \in 1..Len(comp) : comp[i] \in S})

synergy_bonus(comp) ==
    LET comp_set == Range(comp)
        melee_count == CountIn(comp, MELEE_DPS)
        caster_count == CountIn(comp, CASTER_DPS)
    IN  Bonus("Shadowknight" \in comp_set /\ "Shaman" \in comp_set, 18)
      + Bonus("Bard" \in comp_set /\ melee_count >= 2, 10)
      + Bonus("Enchanter" \in comp_set /\ caster_count >= 2, 8)
      + Bonus(Len(comp) = 6
              /\ comp_set \cap {"Warrior", "Shadowknight"} # {}
              /\ {"Shaman", "Bard", "Cleric"} \subseteq comp_set
              /\ melee_count >= 2, 28)

RECURSIVE SumSeq(_)
SumSeq(s) == IF s = <<>> THEN 0 ELSE s[1] + SumSeq(Tail(s))

_charm_synergy_bonus(comp) ==
    IF "Enchanter" \notin Range(comp) THEN 0
    ELSE SumSeq([i \in 1..Len(comp) |->
                    IF comp[i] = "Enchanter" THEN 0
                    ELSE IF comp[i] \in {"Magician", "Necromancer"} THEN 14
                    ELSE IF comp[i] = "Beastlord" THEN 6
                    ELSE IF comp[i] \in {"Wizard", "Druid"} THEN 8
                    ELSE 0])

(* the class in the first `healer` slot, or "None" *)
MainHealer(comp, template_slots) ==
    LET hs == IndicesOf(template_slots, {"healer"})
    IN IF hs = <<>> THEN "None" ELSE comp[hs[1]]

(* 100 x the value _slot_value returns *)
_slot_value(ratings, era, cls, slot0, boxing_mode, comp, template_slots) ==
    LET slot == IF slot0 \in {"kiter_swarm", "kiter_fear_snare"} THEN "kiter"
                ELSE IF slot0 \in {"kite_partner_swarm", "kite_partner_fear_snare"}
                     THEN "kite_partner"
                ELSE slot0
        dps == get_score(ratings, era, cls, "dps") - melee_penalty(boxing_mode, cls, era)
        healing == get_score(ratings, era, cls, "healing")
        tanking == get_score(ratings, era, cls, "tanking")
        pet_tanking == get_score(ratings, era, cls, "pet_tanking")
        sustain == get_score(ratings, era, cls, "sustain")
        kite == get_score(ratings, era, cls, "kite")
        charm == get_score(ratings, era, cls, "charm")
        main_healer == MainHealer(comp, template_slots)
    IN IF slot # "healer" /\ cls \in HEALERS /\ main_healer # "None" /\ cls # main_healer
       THEN 100 * dps + 15 * healing
       ELSE CASE slot = "tank" -> 45 * tanking + 30 * sustain + 25 * dps
              [] slot = "pet_tank" -> 100 * pet_tanking + 15 * sustain
              [] slot = "kiter" -> 100 * kite + 25 * sustain
              [] slot = "charm_tank" -> 100 * charm + 20 * sustain
              [] slot = "healer" -> 100 * healing
              [] slot \in {"kite_partner", "pet_partner", "charm_partner"} ->
                    50 * healing + 50 * dps
              [] slot \in {"slow", "cc", "support"} ->
                    35 * healing + 35 * dps + 20 * charm + 15 * sustain
              [] OTHER -> 100 * dps

(* constraint_already_met_bonus that counts every RUN_SPEED class *)
constraint_already_met_bonus_any_run_speed(comp, require_run_speed, require_ports) ==
      Bonus(require_run_speed /\ Range(comp) \cap RUN_SPEED # {}, 28)
    + Bonus(require_ports /\ Range(comp) \cap PORTERS # {}, 15)

(* lines 860-865: the bonus for a required trait the comp already has *)
constraint_already_met_bonus(comp, require_run_speed, require_ports) ==
      Bonus(require_run_speed /\ Range(comp) \cap {"Bard", "Shaman"} # {}, 28)
    + Bonus(require_ports /\ Range(comp) \cap PORTERS # {}, 15)

(* slow_bonus_or_penalty applied to every comp of two, whatever the template *)
slow_bonus_or_penalty_any_duo(comp, template_slots) ==
    IF Len(comp) = 2
    THEN (IF Range(comp) \cap SLOWERS # {} THEN 20 ELSE -25)
    ELSE 0

(* lines 886-898: slow_logic["bonus_or_penalty"] *)
slow_bonus_or_penalty(comp, template_slots) ==
    IF Len(comp) = 2 /\ template_slots = <<"tank", "healer">>
    THEN (IF Range(comp) \cap SLOWERS # {} THEN 20 ELSE -25)
    ELSE 0

(* the integer total score_comp_explain returns *)
score_comp_explain(comp, ratings, era, boxing_mode, start, require_charm, template_slots, hardcore_required, require_run_speed, require_ports) ==
    LET comp_set == Range(comp)
        n == IF Len(comp) < Len(template_slots) THEN Len(comp) ELSE Len(template_slots)
        tank_count == CountIn(comp, TANKS)
        slot_total ==
            SumSeq([i \in 1..n |->
                _slot_value(ratings, era, comp[i], template_slots[i], boxing_mode,
                            comp, template_slots)
                + Bonus(require_charm /\ comp[i] = "Enchanter", 3000)])
        start_bonus_total == SumSeq([i \in 1..n |-> start_condition_bonus(start, comp[i])])
        hardcore_warrior_bonus ==
            Bonus(hardcore_required
                  /\ \E i \in 1..n : template_slots[i] = "tank" /\ comp[i] = "Warrior", 18)
        classic_double_melee_bonus ==
            Bonus(Len(comp) = 6 /\ boxing_mode \in {"assisted", "macroquest"}
                  /\ start # "fresh"
                  /\ comp_set \cap {"Warrior", "Shadowknight"} # {}
                  /\ {"Shaman", "Bard", "Cleric"} \subseteq comp_set
                  /\ CountIn(comp, MELEE_DPS) >= 2
                  /\ "Enchanter" \notin comp_set, 22)
        charm_snare_bonus ==
            Bonus(Len(comp) \in {2, 3} /\ ("Enchanter" \in comp_set \/ require_charm)
                  /\ comp_set \cap SNARERS # {}, 18)
        tank_stack_penalty == IF tank_count >= 2 THEN -40 * (tank_count - 1) ELSE 0
    IN TruncDiv(slot_total
                + 100 * (synergy_bonus(comp) + _charm_synergy_bonus(comp)
                         + classic_double_melee_bonus + hardcore_warrior_bonus
                         + constraint_already_met_bonus(comp, require_run_speed,
                                                        require_ports)
                         + slow_bonus_or_penalty(comp, template_slots)
                         + tank_stack_penalty + charm_snare_bonus)
                + 40 * start_bonus_total, 100)

---------------------------------------------------------------------------
(* Must-include placement, recommender.py:548-585 *)

RECURSIVE FirstSlotOfTypes(_, _, _)
(* for slot_type in slot_types_for_class: first index of that type not excluded; 0 if none *)
FirstSlotOfTypes(slot_types, template_slots, excluded) ==
    IF slot_types = <<>> THEN 0
    ELSE LET hit == SelectSeq(IndicesOf(template_slots, {Head(slot_types)}),
                              LAMBDA i : i \notin excluded)
         IN IF hit # <<>> THEN hit[1]
            ELSE FirstSlotOfTypes(Tail(slot_types), template_slots, excluded)

_best_slot_index_for_must_include(cls, template_slots, exclude_indices) ==
    LET slot_types_for_class ==
            IF cls \in TANKS THEN <<"tank">>
            ELSE IF cls \in HEALERS THEN <<"healer">>
            ELSE IF cls \in PET_TANKERS THEN <<"pet_tank", "pet_partner", "dps">>
            ELSE IF cls \in SLOWERS THEN <<"slow", "cc", "dps">>
            ELSE IF cls \in CCERS THEN <<"cc", "dps">>
            ELSE IF cls \in CHARMERS THEN <<"charm_tank", "cc", "dps">>
            ELSE IF cls \in KITERS
                 THEN <<"kiter_swarm", "kiter_fear_snare", "kiter", "kite_partner_swarm",
                        "kite_partner_fear_snare", "dps">>
            ELSE <<"dps", "tank", "pet_partner", "charm_partner", "kite_partner_swarm",
                   "kite_partner_fear_snare", "kite_partner", "support", "slow", "cc",
                   "healer">>
        typed == FirstSlotOfTypes(slot_types_for_class, template_slots, exclude_indices)
        free == SelectSeq([i \in 1..Len(template_slots) |-> i],
                          LAMBDA i : i \notin exclude_indices)
    IN IF typed # 0 THEN typed
       ELSE IF free # <<>> THEN free[1]
       ELSE 1

---------------------------------------------------------------------------
(* Enumerator / ranker, recommender.py:965-1100 *)

(* already_satisfied, lines 986-991 *)
AlreadySatisfied(template_slots, available_set, require_charm, hardcore_required) ==
    (IF hardcore_required THEN {"Cleric", "Shaman", "Bard"} \cap available_set ELSE {})
        \cup (IF "charm_tank" \in Range(template_slots) /\ require_charm
              THEN CHARMERS \cap available_set ELSE {})

(* hardcore_forced, lines 1006-1022: first slot of the role -> the locked class *)
HardcoreLock(template_slots, available_set, slot, cls) ==
    IF slot \in Range(template_slots) /\ cls \in available_set
    THEN IndicesOf(template_slots, {slot})[1] :> <<cls>>
    ELSE <<>>

(* HardcoreForced that locks the three classes whether or not they are available *)
HardcoreForced_any_roster(template_slots, available_set, hardcore_required) ==
    IF hardcore_required
    THEN HardcoreLock(template_slots, {"Cleric"}, "healer", "Cleric")
            @@ HardcoreLock(template_slots, {"Shaman"}, "slow", "Shaman")
            @@ HardcoreLock(template_slots, {"Bard"}, "cc", "Bard")
    ELSE <<>>

HardcoreForced(template_slots, available_set, hardcore_required) ==
    IF hardcore_required
    THEN HardcoreLock(template_slots, available_set, "healer", "Cleric")
            @@ HardcoreLock(template_slots, available_set, "slow", "Shaman")
            @@ HardcoreLock(template_slots, available_set, "cc", "Bard")
    ELSE <<>>

(* slot_pools before must-include injection, lines 1024-1032 *)
InitialPools(r, forced, hardcore_forced) ==
    [i \in 1..Len(r.template_slots) |->
        IF i \in DOMAIN hardcore_forced THEN hardcore_forced[i]
        ELSE IF i \in DOMAIN forced THEN Sorted(forced[i])
        ELSE role_candidates(r.available, Ratings(r.ratings), r.era, r.template_slots[i],
                             r.boxing_mode, r.start, r.flags.charm)]

RECURSIVE InjectMust_spread(_, _, _, _)
(* InjectMust that gives every injected class a slot of its own: a slot that *)
(* took a class is skipped for the classes that follow                       *)
InjectMust_spread(must, pools, r, hardcore_slot_indices) ==
    IF must = <<>> THEN pools
    ELSE LET cls == Head(must)
             idx == _best_slot_index_for_must_include(cls, r.template_slots,
                                                      hardcore_slot_indices)
             skip == cls \notin Range(r.available) \/ cls \in r.exclude
                        \/ \E i \in 1..Len(pools) : cls \in Range(pools[i])
                        \/ idx > Len(pools)
             next == IF skip THEN pools ELSE [pools EXCEPT ![idx] = Append(@, cls)]
         IN InjectMust_spread(Tail(must), next, r,
                    IF skip THEN hardcore_slot_indices ELSE hardcore_slot_indices \cup {idx})

RECURSIVE InjectMust_unchecked(_, _, _, _)
(* InjectMust without the test of line 1037: unavailable and excluded *)
(* classes are injected too                                           *)
InjectMust_unchecked(must, pools, r, hardcore_slot_indices) ==
    IF must = <<>> THEN pools
    ELSE LET cls == Head(must)
             idx == _best_slot_index_for_must_include(cls, r.template_slots,
                                                      hardcore_slot_indices)
             next ==
                IF \E i \in 1..Len(pools) : cls \in Range(pools[i]) THEN pools
                ELSE IF idx <= Len(pools) /\ cls \notin Range(pools[idx])
                     THEN [pools EXCEPT ![idx] = Append(@, cls)]
                ELSE pools
         IN InjectMust_unchecked(Tail(must), next, r, hardcore_slot_indices)

RECURSIVE InjectMust_first_free(_, _, _, _)
(* InjectMust that appends to the first slot that is not hardcore-locked, *)
(* whatever the class                                                     *)
InjectMust_first_free(must, pools, r, hardcore_slot_indices) ==
    IF must = <<>> THEN pools
    ELSE LET cls == Head(must)
             free == SelectSeq([i \in 1..Len(pools) |-> i],
                               LAMBDA i : i \notin hardcore_slot_indices)
             idx == IF free # <<>> THEN free[1] ELSE 1
             next ==
                IF cls \notin Range(r.available) \/ cls \in r.exclude THEN pools
                ELSE IF \E i \in 1..Len(pools) : cls \in Range(pools[i]) THEN pools
                ELSE IF idx <= Len(pools) /\ cls \notin Range(pools[idx])
                     THEN [pools EXCEPT ![idx] = Append(@, cls)]
                ELSE pools
         IN InjectMust_first_free(Tail(must), next, r, hardcore_slot_indices)

RECURSIVE InjectMust(_, _, _, _)
(* for cls in must_include, lines 1036-1045; `must` lists the set in iteration order *)
InjectMust(must, pools, r, hardcore_slot_indices) ==
    IF must = <<>> THEN pools
    ELSE LET cls == Head(must)
             idx == _best_slot_index_for_must_include(cls, r.template_slots,
                                                      hardcore_slot_indices)
             next ==
                IF cls \notin Range(r.available) \/ cls \in r.exclude THEN pools
                ELSE IF \E i \in 1..Len(pools) : cls \in Range(pools[i]) THEN pools
                ELSE IF idx <= Len(pools) /\ cls \notin Range(pools[idx])
                     THEN [pools EXCEPT ![idx] = Append(@, cls)]
                ELSE pools
         IN InjectMust(Tail(must), next, r, hardcore_slot_indices)

RECURSIVE ProductSize(_)
ProductSize(pools) ==
    IF pools = <<>> THEN 1 ELSE Len(Head(pools)) * ProductSize(Tail(pools))

RECURSIVE Strides(_)
(* per slot, the number of picks that share the classes of the slots up to it *)
Strides(pools) ==
    IF Len(pools) <= 1 THEN [i \in 1..Len(pools) |-> 1]
    ELSE LET rest == Strides(Tail(pools))
         IN <<Len(pools[2]) * rest[1]>> \o rest

(* the k-th tuple (from 1) of itertools.product over slot_pools: last slot varies fastest *)
Pick(pools, strides, k) ==
    [i \in 1..Len(pools) |-> pools[i][(((k - 1) \div strides[i]) % Len(pools[i])) + 1]]

Count(comp, cls) == Cardinality({i \in 1..Len(comp) : comp[i] = cls})

(* DuplicatesAllowed with allow_duplicate_dps true from one dps slot on *)
DuplicatesAllowed_one_dps(comp, template_slots, boxing_mode, era) ==
    IF Len(comp) = Cardinality(Range(comp)) THEN TRUE
    ELSE IF ~(CountIn(template_slots, {"dps"}) >= 1) THEN FALSE
    ELSE IF Count(comp, "Enchanter") > 1 THEN FALSE
    ELSE IF boxing_mode = "manual"
            /\ \E cls \in Range(comp) :
                  /\ Count(comp, cls) > 1
                  /\ cls \in MELEE_DPS
                  /\ ~(cls = "Ranger" /\ era \in {"luclin", "pop"})
         THEN FALSE
    ELSE TRUE

(* DuplicatesAllowed with the 2x Enchanter test of lines 1061-1062 dropped *)
DuplicatesAllowed_two_enchanters(comp, template_slots, boxing_mode, era) ==
    IF Len(comp) = Cardinality(Range(comp)) THEN TRUE
    ELSE IF ~(CountIn(template_slots, {"dps"}) >= 2) THEN FALSE
    ELSE IF boxing_mode = "manual"
            /\ \E cls \in Range(comp) :
                  /\ Count(comp, cls) > 1
                  /\ cls \in MELEE_DPS
                  /\ ~(cls = "Ranger" /\ era \in {"luclin", "pop"})
         THEN FALSE
    ELSE TRUE

(* lines 1057-1068: TRUE when the duplicate rules let the comp through *)
DuplicatesAllowed(comp, template_slots, boxing_mode, era) ==
    IF Len(comp) = Cardinality(Range(comp)) THEN TRUE
    ELSE IF ~(CountIn(template_slots, {"dps"}) >= 2) THEN FALSE
    ELSE IF Count(comp, "Enchanter") > 1 THEN FALSE
    ELSE IF boxing_mode = "manual"
            /\ \E cls \in Range(comp) :
                  /\ Count(comp, cls) > 1
                  /\ cls \in MELEE_DPS
                  /\ ~(cls = "Ranger" /\ era \in {"luclin", "pop"})
         THEN FALSE
    ELSE TRUE

(* PicksToScore with the comp_matches_constraints filter of lines 1077-1085 dropped *)
PicksToScore_unconstrained(r, pools) ==
    LET total == ProductSize(pools)
        strides == Strides(pools)
        passes(k) ==
            LET comp == Pick(pools, strides, k)
            IN /\ DuplicatesAllowed(comp, r.template_slots, r.boxing_mode, r.era)
               /\ comp_matches_filters(comp, Range(r.must_include), r.exclude)
        ks == SelectSeq([k \in 1..total |-> k], passes)
    IN [j \in 1..Len(ks) |-> Pick(pools, strides, ks[j])]

(* lines 1053-1085: the picks that reach the scorer, in product order.  A pick is *)
(* dropped by `seen` when an earlier pick that got past the duplicate rules is    *)
(* the same tuple, which needs a class listed twice in one pool.                  *)
PicksToScore(r, pools) ==
    LET total == ProductSize(pools)
        strides == Strides(pools)
        repeats == \E i \in 1..Len(pools) : Cardinality(Range(pools[i])) # Len(pools[i])
        passes(k) ==
            LET comp == Pick(pools, strides, k)
            IN /\ DuplicatesAllowed(comp, r.template_slots, r.boxing_mode, r.era)
               /\ ~(repeats /\ \E j \in 1..(k - 1) : Pick(pools, strides, j) = comp)
               /\ comp_matches_filters(comp, Range(r.must_include), r.exclude)
               /\ comp_matches_constraints(comp, r.flags.ports, r.flags.run_speed,
                        r.flags.charm, r.flags.pet_heavy, r.flags.kiting)
        ks == SelectSeq([k \in 1..total |-> k], passes)
    IN [j \in 1..Len(ks) |-> Pick(pools, strides, ks[j])]

(* Ranked that cuts at limit before it sorts *)
Ranked_cut_then_sort(r, comps) ==
    LET scoredPairs ==
            [j \in 1..Len(comps) |->
                <<score_comp_explain(comps[j], Ratings(r.ratings), r.era, r.boxing_mode,
                        r.start, r.flags.charm, r.template_slots, r.hardcore_required,
                        r.flags.run_speed, r.flags.ports),
                  comps[j]>>]
        m == IF Len(scoredPairs) < r.limit THEN Len(scoredPairs) ELSE r.limit
    IN SortDesc(SubSeq(scoredPairs, 1, m))

(* Ranked without the sort: the comps stay in product order *)
Ranked_unsorted(r, comps) ==
    LET scoredPairs ==
            [j \in 1..Len(comps) |->
                <<score_comp_explain(comps[j], Ratings(r.ratings), r.era, r.boxing_mode,
                        r.start, r.flags.charm, r.template_slots, r.hardcore_required,
                        r.flags.run_speed, r.flags.ports),
                  comps[j]>>]
        m == IF Len(scoredPairs) < r.limit THEN Len(scoredPairs) ELSE r.limit
    IN SubSeq(scoredPairs, 1, m)

(* lines 1087-1100: score, sort by score descending, cut at limit (limit >= 0) *)
Ranked(r, comps) ==
    LET scoredPairs ==
            [j \in 1..Len(comps) |->
                <<score_comp_explain(comps[j], Ratings(r.ratings), r.era, r.boxing_mode,
                        r.start, r.flags.charm, r.template_slots, r.hardcore_required,
                        r.flags.run_speed, r.flags.ports),
                  comps[j]>>]
        srt == SortDesc(scoredPairs)
        m == IF Len(srt) < r.limit THEN Len(srt) ELSE r.limit
    IN SubSeq(srt, 1, m)

---------------------------------------------------------------------------
(* Requests *)

MaxRemoved == 1
MaxSatisfied == 2
MaxMust == 2

SubsetsUpTo(S, n) == {X \in SUBSET S : Cardinality(X) <= n}

(* sequences of at most n distinct members of S: a set of classes in each order *)
(* a Python set may be iterated in                                              *)
ListingsUpTo(S, n) ==
    UNION {{q \in [1..m -> S] : \A i, j \in 1..m : i # j => q[i] # q[j]} : m \in 0..n}

Flags == [ports : BOOLEAN, run_speed : BOOLEAN, charm : BOOLEAN,
          pet_heavy : BOOLEAN, kiting : BOOLEAN]

NoFlags == [ports |-> FALSE, run_speed |-> FALSE, charm |-> FALSE,
            pet_heavy |-> FALSE, kiting |-> FALSE]

(* Class lists an era and ruleset make available (get_available_classes). *)
RosterA == {"Warrior", "Cleric", "Shaman", "Enchanter", "Bard", "Wizard"}
RosterB == {"Warrior", "Cleric", "Shaman", "Magician", "Monk", "Ranger"}
RosterC == {"Warrior", "Cleric", "Enchanter", "Ranger", "Rogue", "Wizard"}

(* era, boxing style, start condition and rating store of a request *)
Contexts ==
    {[era |-> "ckv", boxing_mode |-> "manual", start |-> "fresh", ratings |-> "sample"],
     [era |-> "luclin", boxing_mode |-> "manual", start |-> "assisted", ratings |-> "sample"],
     [era |-> "ckv", boxing_mode |-> "assisted", start |-> "assisted", ratings |-> "sample"],
     [era |-> "pop", boxing_mode |-> "macroquest", start |-> "fresh", ratings |-> "empty"]}

(* the result limit the caller passes, app.py:319 *)
Limit == 15

Request(t, avail, f, hc, ctx, must, excl) ==
    [template_slots |-> t, available |-> Sorted(avail), flags |-> f,
     hardcore_required |-> hc, ratings |-> ctx.ratings, era |-> ctx.era,
     boxing_mode |-> ctx.boxing_mode, start |-> ctx.start,
     must_include |-> must, exclude |-> excl, limit |-> Limit]

Idle ==
    /\ pc = "ready"
    /\ forced_slots = <<>>
    /\ slot_pools = <<>>
    /\ scored = <<>>
    /\ results = <<>>
    /\ filtered_defaults = <<>>
    /\ class_list = <<>>
    /\ detail = <<>>

(* Requests without class filters: every template, flag combination and context. *)
InitGen ==
    /\ \E t \in TemplateSet, hc \in BOOLEAN, f \in Flags, ctx \in Contexts,
          avail \in {RosterA \ rm : rm \in SubsetsUpTo(RosterA, MaxRemoved)} \cup {RosterB} :
            req = Request(t, avail, f, hc, ctx, <<>>, {})
    /\ Idle

MustCandidates == {"Cleric", "Enchanter", "Monk", "Ranger"}
ExcludeChoices == {{}, {"Cleric"}, {"Monk"}, {"Shaman", "Warrior"}}
FilterFlags ==
    {NoFlags, [NoFlags EXCEPT !.charm = TRUE], [NoFlags EXCEPT !.pet_heavy = TRUE]}
FilterContext == CHOOSE ctx \in Contexts : ctx.era = "ckv" /\ ctx.boxing_mode = "manual"

(* every class of the ckv era, so that the ten-class dps pool leaves some out *)
RosterFull == DOMAIN CkvRows

(* the 2-box and 3-box templates *)
SmallTemplates == {t \in TemplateSet : Len(t) <= 3}

(* manual boxing against the empty rating store *)
UnratedContext ==
    [era |-> "ckv", boxing_mode |-> "manual", start |-> "fresh", ratings |-> "empty"]

(* Requests with must-include and exclude filters: small rosters with every *)
(* template, and the full roster with the small templates.                  *)
InitFilter ==
    /\ \/ \E t \in TemplateSet, hc \in BOOLEAN, f \in FilterFlags,
             avail \in {RosterA, RosterB, RosterC},
             must \in ListingsUpTo(MustCandidates, MaxMust), excl \in ExcludeChoices :
               req = Request(t, avail, f, hc, FilterContext, must, excl)
       \/ \E t \in SmallTemplates, hc \in BOOLEAN, f \in FilterFlags,
             must \in ListingsUpTo(MustCandidates, MaxMust), excl \in ExcludeChoices :
               req = Request(t, RosterFull, f, hc, UnratedContext, must, excl)
    /\ Idle

(* Classes whose availability or presence the forcer can tell apart. *)
ForcingClasses == CHARMERS \cup PET_DPS \cup KITERS

(* already_satisfied: the classes the callers pass (recommender.py:986-991, *)
(* app.py:526) and a pet class.                                            *)
SatisfiedChoices ==
    SubsetsUpTo({"Cleric", "Shaman", "Bard", "Enchanter", "Magician"}, MaxSatisfied)

(* Arguments of a direct call of force_constraints_into_slots. *)
InitForce ==
    /\ \E t \in TemplateSet, rm \in SubsetsUpTo(ForcingClasses, MaxRemoved), f \in Flags,
          sat \in SatisfiedChoices, hc \in BOOLEAN :
            req = [template_slots |-> t, available |-> Sorted(Classes \ rm), flags |-> f,
                   already_satisfied |-> sat, hardcore_required |-> hc]
    /\ Idle

ForceConstraints ==
    /\ pc = "ready"
    /\ forced_slots' = force_constraints_into_slots(req.template_slots, req.available,
            req.flags.ports, req.flags.run_speed, req.flags.charm, req.flags.pet_heavy,
            req.flags.kiting, req.already_satisfied, req.hardcore_required)
    /\ pc' = "forced"
    /\ UNCHANGED <<req, slot_pools, scored, results, filtered_defaults, class_list, detail>>

(* The body of generate_scored_recommendations. *)
Enumerate ==
    /\ LET available_set == Range(req.available)
           hardcore_forced ==
               HardcoreForced(req.template_slots, available_set, req.hardcore_required)
       IN /\ forced_slots' = force_constraints_into_slots(req.template_slots,
                 req.available, req.flags.ports, req.flags.run_speed, req.flags.charm,
                 req.flags.pet_heavy, req.flags.kiting,
                 AlreadySatisfied(req.template_slots, available_set, req.flags.charm,
                                  req.hardcore_required),
                 req.hardcore_required)
          /\ slot_pools' = InjectMust(req.must_include,
                 InitialPools(req, forced_slots', hardcore_forced), req,
                 DOMAIN hardcore_forced)
    /\ scored' = PicksToScore(req, slot_pools')
    /\ results' = Ranked(req, scored')
    /\ UNCHANGED req

(* One call of generate_scored_recommendations. *)
Generate ==
    /\ pc = "ready"
    /\ Enumerate
    /\ pc' = "returned"
    /\ UNCHANGED <<filtered_defaults, class_list, detail>>

NextForce == ForceConstraints

SpecForce == InitForce /\ [][NextForce]_vars

(* Direct calls for the grouping of requirement sets: the two flags that are *)
(* never forced go together, and at most one requirement is already met.     *)
GroupFlags == {f \in Flags : f.ports = f.run_speed}

GroupSatisfied == {{}, {"Enchanter"}, {"Magician"}}

InitGroup ==
    /\ \E t \in TemplateSet, rm \in SubsetsUpTo(ForcingClasses, MaxRemoved),
          f \in GroupFlags, sat \in GroupSatisfied, hc \in BOOLEAN :
            req = [template_slots |-> t, available |-> Sorted(Classes \ rm), flags |-> f,
                   already_satisfied |-> sat, hardcore_required |-> hc]
    /\ Idle

SpecGroup == InitGroup /\ [][NextForce]_vars

NextGen == Generate

SpecGen == InitGen /\ [][NextGen]_vars

SpecFilter == InitFilter /\ [][NextGen]_vars

---------------------------------------------------------------------------
(* Calls with a chosen result limit *)

MaxLimit == 3

LimitFlags == {NoFlags, [NoFlags EXCEPT !.charm = TRUE], [NoFlags EXCEPT !.ports = TRUE],
               [NoFlags EXCEPT !.run_speed = TRUE, !.pet_heavy = TRUE]}

InitLimit ==
    /\ \E t \in TemplateSet, hc \in BOOLEAN, f \in LimitFlags, ctx \in Contexts,
          avail \in {RosterA, RosterB}, limit \in (0..MaxLimit) \cup {Limit} :
            req = [Request(t, avail, f, hc, ctx, <<>>, {}) EXCEPT !.limit = limit]
    /\ Idle

SpecLimit == InitLimit /\ [][NextGen]_vars

---------------------------------------------------------------------------
(* Direct calls of score_comp_explain, recommender.py:803-962 *)

MaxVaried == 3

ScoreClasses == {"Warrior", "Cleric", "Shaman", "Druid", "Ranger", "Bard", "Enchanter"}

(* comps for a template: the first MaxVaried slots vary freely, the slots *)
(* after them all hold one class                                          *)
CompsFor(t) ==
    LET m == IF Len(t) < MaxVaried THEN Len(t) ELSE MaxVaried
    IN {[i \in 1..Len(t) |-> IF i <= m THEN p[i] ELSE c] :
            p \in [1..m -> ScoreClasses], c \in ScoreClasses}

ScoreContexts ==
    {FilterContext,
     [era |-> "luclin", boxing_mode |-> "assisted", start |-> "assisted", ratings |-> "sample"]}

InitScore ==
    /\ \E t \in TemplateSet, ctx \in ScoreContexts, run_speed \in BOOLEAN, ports \in BOOLEAN :
        \E comp \in CompsFor(t) :
            req = [comp |-> comp, template_slots |-> t, ratings |-> ctx.ratings,
                   era |-> ctx.era, boxing_mode |-> ctx.boxing_mode, start |-> ctx.start,
                   flags |-> [NoFlags EXCEPT !.run_speed = run_speed, !.ports = ports],
                   hardcore_required |-> FALSE]
    /\ Idle

(* One call of score_comp_explain: the total and the two terms of the detail. *)
ScoreComp ==
    /\ pc = "ready"
    /\ detail' =
          [total |-> score_comp_explain(req.comp, Ratings(req.ratings), req.era,
                        req.boxing_mode, req.start, req.flags.charm, req.template_slots,
                        req.hardcore_required, req.flags.run_speed, req.flags.ports),
           constraint_already_met_bonus |->
                constraint_already_met_bonus(req.comp, req.flags.run_speed, req.flags.ports),
           slow_bonus_or_penalty |-> slow_bonus_or_penalty(req.comp, req.template_slots)]
    /\ pc' = "scored"
    /\ UNCHANGED <<req, forced_slots, slot_pools, scored, results, filtered_defaults,
                   class_list>>

NextScore == ScoreComp

SpecScore == InitScore /\ [][NextScore]_vars

---------------------------------------------------------------------------
(* Calls that differ in the order the must_include set is iterated in *)

OrderCandidates == {"Monk", "Ranger", "Warrior", "Wizard"}

OrderContexts ==
    {UnratedContext, FilterContext,
     [era |-> "pop", boxing_mode |-> "macroquest", start |-> "fresh", ratings |-> "empty"]}

InitOrder ==
    /\ \E t \in SmallTemplates, hc \in BOOLEAN, ctx \in OrderContexts,
          avail \in {RosterFull, RosterB},
          must \in ListingsUpTo(OrderCandidates, MaxMust),
          limit \in (1..MaxLimit) \cup {Limit} :
            req = [Request(t, avail, NoFlags, hc, ctx, must, {}) EXCEPT !.limit = limit]
    /\ Idle

SpecOrder == InitOrder /\ [][NextGen]_vars

---------------------------------------------------------------------------
(* Calls on objects the caller and the module share, recommender.py:636-728, *)
(* 1024-1045: which object each statement that changes an object in place    *)
(* acts on.  An object is named by the shared object it is ("available",     *)
(* "CHARMERS", ...) or is "local" when the call created it.                  *)

(* the class-trait sets of the module, lines 21-44 *)
ModuleTables ==
    [PORTERS |-> PORTERS, SLOWERS |-> SLOWERS, CHARMERS |-> CHARMERS, PET_DPS |-> PET_DPS,
     KITERS |-> KITERS, CCERS |-> CCERS, TANKS |-> TANKS, HEALERS |-> HEALERS,
     PET_TANKERS |-> PET_TANKERS, MELEE_DPS |-> MELEE_DPS]

(* list(x), set(x), sorted(x), x & y and a comprehension over x that hand *)
(* back x itself                                                          *)
NewObject_same_object(from) == from

(* list(x), set(x), sorted(x), x & y and a comprehension over x build an *)
(* object of their own                                                   *)
NewObject(from) == "local"

(* avail = list(available), line 347 *)
avail_object == NewObject("available")

(* the list role_candidates returns: a literal for the singleton slots,  *)
(* otherwise a comprehension over avail or over the scored list built    *)
(* from it                                                               *)
role_candidates_object(role) ==
    IF role \in {"charm_tank", "kiter_swarm"} THEN "local" ELSE NewObject(avail_object)

(* reqs.append(set(CHARMERS) & available_set), lines 648-653 *)
requirement_object(table) == NewObject(NewObject(table))

(* inter = set(reqs[idxs[0]]), line 664 *)
inter_object(table) == NewObject(requirement_object(table))

(* return [r for r in reqs if r], line 654 *)
reqs_object == NewObject("local")

(* the tables of the requirement sets _build_requirement_sets returns, in order *)
RequirementTables(available_set, require_charm, require_pet_heavy, require_kiting, already_satisfied) ==
    LET names ==
            (IF require_charm /\ (CHARMERS \cap already_satisfied) = {}
                THEN <<"CHARMERS">> ELSE <<>>)
         \o (IF require_pet_heavy /\ (PET_DPS \cap already_satisfied) = {}
                THEN <<"PET_DPS">> ELSE <<>>)
         \o (IF require_kiting /\ (KITERS \cap already_satisfied) = {}
                THEN <<"KITERS">> ELSE <<>>)
    IN SelectSeq(names, LAMBDA t : ModuleTables[t] \cap available_set # {})

RECURSIVE Flatten(_)
Flatten(seqs) == IF seqs = <<>> THEN <<>> ELSE Head(seqs) \o Flatten(Tail(seqs))

(* inter &= reqs[j] for every combination of size k, lines 663-666 *)
IntersectWrites(reqs, tables, k) ==
    LET combos == Combinations(1, Len(reqs), k)
    IN Flatten([c \in 1..Len(combos) |->
            [j \in 1..(k - 1) |->
                [target |-> inter_object(tables[combos[c][1]]), op |-> "intersect",
                 arg |-> reqs[combos[c][j + 1]]]]])

(* the sizes _best_intersection_group goes through before it returns g *)
SizesTried(g) == IF g.idxs = <<>> THEN <<3, 2, 1>> ELSE SubSeq(<<3, 2, 1>>, 1, 4 - Len(g.idxs))

RECURSIVE ForceWrites(_, _, _, _)
(* the in-place statements of the forcing loop, lines 716-726 *)
ForceWrites(reqs, tables, slot_order, slot_cursor) ==
    IF reqs = <<>> \/ slot_cursor > Len(slot_order) THEN <<>>
    ELSE LET g == _best_intersection_group(reqs)
             tried == SizesTried(g)
             search == Flatten([n \in 1..Len(tried) |-> IntersectWrites(reqs, tables, tried[n])])
             dels == [n \in 1..Len(g.idxs) |->
                        [target |-> reqs_object, op |-> "delete",
                         arg |-> g.idxs[Len(g.idxs) + 1 - n]]]
         IN IF g.idxs = <<>> \/ g.pool = {} THEN search
            ELSE search \o dels
                   \o ForceWrites(DeleteAt(reqs, g.idxs), DeleteAt(tables, g.idxs),
                                  slot_order, slot_cursor + 1)

RECURSIVE ForcedObjects(_, _, _, _)
(* forced[slot_idx] = pool: the object each forced slot holds *)
ForcedObjects(reqs, tables, slot_order, slot_cursor) ==
    IF reqs = <<>> \/ slot_cursor > Len(slot_order) THEN <<>>
    ELSE LET g == _best_intersection_group(reqs)
         IN IF g.idxs = <<>> \/ g.pool = {} THEN <<>>
            ELSE (slot_order[slot_cursor] :> inter_object(tables[g.idxs[1]]))
                   @@ ForcedObjects(DeleteAt(reqs, g.idxs), DeleteAt(tables, g.idxs),
                                    slot_order, slot_cursor + 1)

(* the in-place statements of one call of force_constraints_into_slots *)
force_constraints_into_slots_writes(r, already_satisfied) ==
    ForceWrites(
        _build_requirement_sets(Range(r.available), r.flags.ports, r.flags.run_speed,
            r.flags.charm, r.flags.pet_heavy, r.flags.kiting, already_satisfied),
        RequirementTables(Range(r.available), r.flags.charm, r.flags.pet_heavy,
            r.flags.kiting, already_satisfied),
        _flex_slot_indices(r.template_slots, r.hardcore_required), 1)

(* the object each slot pool is, lines 1024-1032 *)
slot_pool_objects(r, already_satisfied, hardcore_forced) ==
    LET forced ==
            ForcedObjects(
                _build_requirement_sets(Range(r.available), r.flags.ports, r.flags.run_speed,
                    r.flags.charm, r.flags.pet_heavy, r.flags.kiting, already_satisfied),
                RequirementTables(Range(r.available), r.flags.charm, r.flags.pet_heavy,
                    r.flags.kiting, already_satisfied),
                _flex_slot_indices(r.template_slots, r.hardcore_required), 1)
    IN [i \in 1..Len(r.template_slots) |->
            IF i \in DOMAIN hardcore_forced THEN NewObject("local")
            ELSE IF i \in DOMAIN forced THEN NewObject(forced[i])
            ELSE role_candidates_object(r.template_slots[i])]

RECURSIVE InjectWrites(_, _, _, _, _)
(* slot_pools[idx] = list(slot_pools[idx]); slot_pools[idx].append(cls), *)
(* lines 1036-1045                                                      *)
InjectWrites(must, pools, objects, r, hardcore_slot_indices) ==
    IF must = <<>> THEN <<>>
    ELSE LET cls == Head(must)
             idx == _best_slot_index_for_must_include(cls, r.template_slots,
                                                      hardcore_slot_indices)
             skip == \/ cls \notin Range(r.available) \/ cls \in r.exclude
                     \/ \E i \in 1..Len(pools) : cls \in Range(pools[i])
                     \/ idx > Len(pools)
         IN IF skip
            THEN InjectWrites(Tail(must), pools, objects, r, hardcore_slot_indices)
            ELSE <<[target |-> NewObject(objects[idx]), op |-> "append", arg |-> cls]>>
                   \o InjectWrites(Tail(must), [pools EXCEPT ![idx] = Append(@, cls)],
                                   [objects EXCEPT ![idx] = NewObject(@)], r,
                                   hardcore_slot_indices)

(* the in-place statements of one call of generate_scored_recommendations *)
generate_scored_recommendations_writes(r) ==
    LET available_set == Range(r.available)
        already_satisfied == AlreadySatisfied(r.template_slots, available_set, r.flags.charm,
                                              r.hardcore_required)
        hardcore_forced == HardcoreForced(r.template_slots, available_set, r.hardcore_required)
        forced == force_constraints_into_slots(r.template_slots, r.available, r.flags.ports,
                      r.flags.run_speed, r.flags.charm, r.flags.pet_heavy, r.flags.kiting,
                      already_satisfied, r.hardcore_required)
    IN force_constraints_into_slots_writes(r, already_satisfied)
         \o InjectWrites(r.must_include, InitialPools(r, forced, hardcore_forced),
                         slot_pool_objects(r, already_satisfied, hardcore_forced), r,
                         DOMAIN hardcore_forced)

(* one in-place statement carried out: it changes a shared object when its *)
(* target is one                                                          *)
ApplyWrite(r, w) ==
    IF w.target = "available" /\ w.op = "append"
    THEN [r EXCEPT !.available = Append(@, w.arg)]
    ELSE IF w.target \in DOMAIN r.tables /\ w.op = "intersect"
    THEN [r EXCEPT !.tables[w.target] = @ \cap w.arg]
    ELSE r

RECURSIVE ApplyWrites(_, _)
ApplyWrites(r, writes) ==
    IF writes = <<>> THEN r ELSE ApplyWrites(ApplyWrite(r, Head(writes)), Tail(writes))

FrameFlags ==
    {f \in Flags : ~f.ports /\ ~f.run_speed /\ (f.charm => ~f.kiting)}

(* Requests whose arguments and module tables are objects other calls share. *)
InitShared ==
    /\ \E t \in SmallTemplates, f \in FrameFlags, hc \in BOOLEAN,
          avail \in {RosterB, RosterFull}, sat \in GroupSatisfied,
          must \in ListingsUpTo({"Monk", "Ranger"}, MaxMust) :
            req = [already_satisfied |-> sat, tables |-> ModuleTables] @@
                  Request(t, avail, f, hc, FilterContext, must, {})
    /\ Idle

(* One call of generate_scored_recommendations on the shared objects; calls *)
(* follow one another in any order.                                         *)
GenerateShared ==
    /\ LET available_set == Range(req.available)
           hardcore_forced ==
               HardcoreForced(req.template_slots, available_set, req.hardcore_required)
       IN /\ forced_slots' = force_constraints_into_slots(req.template_slots,
                 req.available, req.flags.ports, req.flags.run_speed, req.flags.charm,
                 req.flags.pet_heavy, req.flags.kiting,
                 AlreadySatisfied(req.template_slots, available_set, req.flags.charm,
                                  req.hardcore_required),
                 req.hardcore_required)
          /\ slot_pools' = InjectMust(req.must_include,
                 InitialPools(req, forced_slots', hardcore_forced), req,
                 DOMAIN hardcore_forced)
    /\ scored' = PicksToScore(req, slot_pools')
    /\ results' = Ranked(req, scored')
    /\ req' = ApplyWrites(req, generate_scored_recommendations_writes(req))
    /\ pc' = "returned"
    /\ UNCHANGED <<filtered_defaults, class_list, detail>>

(* One call of force_constraints_into_slots on the shared objects. *)
ForceShared ==
    /\ forced_slots' = force_constraints_into_slots(req.template_slots, req.available,
            req.flags.ports, req.flags.run_speed, req.flags.charm, req.flags.pet_heavy,
            req.flags.kiting, req.already_satisfied, req.hardcore_required)
    /\ req' = ApplyWrites(req, force_constraints_into_slots_writes(req, req.already_satisfied))
    /\ pc' = "forced"
    /\ UNCHANGED <<slot_pools, scored, results, filtered_defaults, class_list, detail>>

NextShared == GenerateShared \/ ForceShared

SpecShared == InitShared /\ [][NextShared]_vars

---------------------------------------------------------------------------
(* Calls with the slot names of a template in another order *)

(* the orders of 1..n *)
Orders(n) == {q \in [1..n -> 1..n] : \A i, j \in 1..n : i # j => q[i] # q[j]}

(* slot i of the reordered template is slot order[i] of t *)
Reordered(t, order) == [i \in 1..Len(t) |-> t[order[i]]]

InitReorder ==
    /\ \E t \in SmallTemplates, f \in FilterFlags, avail \in {RosterA, RosterB, RosterFull} :
        \E order \in Orders(Len(t)) :
            req = [canonical |-> t, order |-> order] @@
                  Request(Reordered(t, order), avail, f, FALSE, FilterContext, <<>>, {})
    /\ Idle

SpecReorder == InitReorder /\ [][NextGen]_vars

---------------------------------------------------------------------------
(* get_available_classes, recommender.py:178-189 *)

(* position of a class name in string order *)
ClassRank(c) == CHOOSE i \in 1..Len(ClassOrder) : ClassOrder[i] = c

(* sorted(final): a sort of the listing by string order *)
sorted(listing) == SortSeq(listing, LAMBDA a, b : ClassRank(a) < ClassRank(b))

Rotate(s, k) == [i \in 1..Len(s) |-> s[((i + k - 1) % Len(s)) + 1]]

Reverse(s) == [i \in 1..Len(s) |-> s[Len(s) + 1 - i]]

(* orders a Python set of classes may be iterated in: the rotations of one *)
(* listing and their reversals                                             *)
IterationOrders(S) ==
    LET s == Sorted(S)
    IN {Rotate(s, k) : k \in 0..(Len(s) - 1)} \cup {Reverse(Rotate(s, k)) : k \in 0..(Len(s) - 1)}
          \cup {s}

(* the entry of an era-keyed ruleset map: map.get(era, []) or [] *)
EraEntry(map, era) == IF era \in DOMAIN map THEN map[era] ELSE <<>>

(* final with the removals taken out before the additions go in *)
final_removes_first(ratings, era, ruleset) ==
    LET base == IF era \in DOMAIN ratings THEN DOMAIN ratings[era] ELSE {}
        additions == Range(EraEntry(ruleset.add_classes_by_era, era))
        removals == Range(EraEntry(ruleset.remove_classes_by_era, era))
    IN (base \ removals) \cup additions

(* lines 183-188: final = (base | additions) - removals *)
final(ratings, era, ruleset) ==
    LET base == IF era \in DOMAIN ratings THEN DOMAIN ratings[era] ELSE {}
        additions == Range(EraEntry(ruleset.add_classes_by_era, era))
        removals == Range(EraEntry(ruleset.remove_classes_by_era, era))
    IN (base \cup additions) \ removals

MaxListed == 2

(* classes a ruleset adds or removes *)
RulesetClasses == {"Beastlord", "Monk", "Warrior"}

(* lists of at most n entries, repeats allowed *)
ListsUpTo(S, n) == UNION {[1..m -> S] : m \in 0..n}

(* an era-keyed map with an entry for at most one era *)
EraMap(era, list) == IF era = "none" THEN <<>> ELSE [e \in {era} |-> list]

RequestEras == {"ckv", "luclin", "god"}

RulesetEras == {"ckv", "none"}

InitAvail ==
    /\ \E store \in RatingStores, era \in RequestEras, add_era \in RulesetEras,
          rem_era \in RulesetEras, adds \in ListsUpTo(RulesetClasses, MaxListed),
          rems \in ListsUpTo(RulesetClasses, MaxListed) :
            req = [ratings |-> store, era |-> era,
                   ruleset |-> [add_classes_by_era |-> EraMap(add_era, adds),
                                remove_classes_by_era |-> EraMap(rem_era, rems)]]
    /\ Idle

(* One call of get_available_classes. *)
GetAvailableClasses ==
    /\ pc = "ready"
    /\ \E listing \in IterationOrders(final(Ratings(req.ratings), req.era, req.ruleset)) :
          class_list' = sorted(listing)
    /\ pc' = "listed"
    /\ UNCHANGED <<req, forced_slots, slot_pools, scored, results, filtered_defaults, detail>>

NextAvail == GetAvailableClasses

SpecAvail == InitAvail /\ [][NextAvail]_vars

---------------------------------------------------------------------------
(* The page's recommendation path, app.py:455-505 and 596-725 *)

BoxSizes == 2..6

(* Rows of synergies_and_defaults.csv for one era, by box size, in rank order. *)
SampleDefaults ==
    [n \in BoxSizes |->
        CASE n = 2 -> << <<1, <<"Enchanter", "Cleric">> >>, <<2, <<"Warrior", "Cleric">> >>,
                         <<3, <<"Monk", "Shaman">> >> >>
          [] n = 3 -> << <<1, <<"Warrior", "Cleric", "Enchanter">> >>,
                         <<2, <<"Warrior", "Shaman", "Wizard">> >> >>
          [] n = 4 -> << <<1, <<"Warrior", "Cleric", "Shaman", "Wizard">> >> >>
          [] n = 5 -> << <<1, <<"Warrior", "Cleric", "Shaman", "Enchanter", "Wizard">> >> >>
          [] n = 6 -> << <<1, <<"Warrior", "Cleric", "Shaman", "Bard", "Wizard", "Ranger">> >> >>]

(* the default-comp stores a page may run against: a populated one and one *)
(* without rows for the era                                                *)
DefaultStores == {"sample", "none"}

(* what the page narrows must-include and exclude selections to: classes that *)
(* are available, passed on in sorted order                                    *)
Sanitize(selection, available_set) == Sorted(selection \cap available_set)

(* The arguments the page passes to generate_scored_recommendations for its *)
(* selections, together with the selections themselves.                     *)
AppRequest(box_size, focus, two_box_mode, kiting_style, require_charm, avail, f, ctx, must, excl, defaults) ==
    [template_slots |-> select_template(box_size, focus, two_box_mode, kiting_style, require_charm),
     available |-> Sorted(avail),
     flags |-> [f EXCEPT !.charm = box_size >= 3 /\ require_charm, !.kiting = FALSE],
     hardcore_required |-> (focus = "solo_raid" /\ box_size >= 4),
     ratings |-> ctx.ratings, era |-> ctx.era,
     boxing_mode |-> ctx.boxing_mode, start |-> ctx.start,
     must_include |-> Sanitize(must, avail), exclude |-> excl \cap avail, limit |-> Limit,
     box_size |-> box_size, focus |-> focus, two_box_mode |-> two_box_mode,
     kiting_style |-> kiting_style, require_charm |-> require_charm, defaults |-> defaults]

AppMustChoices == {{}, {"Warrior"}, {"Ranger", "Wizard"}}
AppExcludeChoices == {{}, {"Cleric"}}
AppFlags == {NoFlags, [NoFlags EXCEPT !.pet_heavy = TRUE]}
AppContexts == {FilterContext}

(* Page selections: every box size, focus, two-box mode, kiting style and *)
(* charm setting.                                                         *)
InitApp ==
    /\ \E box_size \in BoxSizes, focus \in Focuses, two_box_mode \in TwoBoxModes,
          kiting_style \in KitingStyles, require_charm \in BOOLEAN,
          avail \in {RosterA, RosterB}, f \in AppFlags, ctx \in AppContexts,
          must \in AppMustChoices, excl \in AppExcludeChoices, defaults \in DefaultStores :
            req = AppRequest(box_size, focus, two_box_mode, kiting_style, require_charm,
                             avail, f, ctx, must, excl, defaults)
    /\ Idle

(* lines 696-716: the defaults shown when no comp was scored *)
DefaultsFallback(r) ==
    IF r.defaults = "none" THEN <<>>
    ELSE LET all_defaults == SampleDefaults[r.box_size]
             ruleset_filtered_defaults ==
                 SelectSeq(all_defaults, LAMBDA d : Range(d[2]) \subseteq Range(r.available))
         IN filter_default_comps(ruleset_filtered_defaults, Range(r.must_include),
                r.exclude, r.flags.ports, r.flags.run_speed, r.flags.charm,
                r.flags.pet_heavy, FALSE)

(* One rendering of the recommendations column with Meta Builds off: the *)
(* scored list, or the filtered defaults when that list is empty.        *)
Recommend ==
    /\ pc = "ready"
    /\ Enumerate
    /\ filtered_defaults' = IF results' # <<>> THEN <<>> ELSE DefaultsFallback(req)
    /\ pc' = "rendered"
    /\ UNCHANGED <<class_list, detail>>

NextApp == Recommend

SpecApp == InitApp /\ [][NextApp]_vars

---------------------------------------------------------------------------
(* Properties of the returned comps *)

Returned == pc = "returned"

(* the comps of the returned list *)
ReturnedComps == {results[i][2] : i \in 1..Len(results)}

(* the classes that occur more than once in a comp *)
Repeated(comp) == {c \in Range(comp) : Count(comp, c) > 1}

DpsSlots(template_slots) == CountIn(template_slots, {"dps"})

(* a class stands in the pools of two slots, so the product holds a comp that *)
(* repeats it                                                                 *)
SharedBetweenPools(c) ==
    \E i, j \in 1..Len(slot_pools) :
        i # j /\ c \in Range(slot_pools[i]) /\ c \in Range(slot_pools[j])

(* the pools as built before the must-include loop ran *)
PoolsBeforeInjection ==
    InitialPools(req, forced_slots,
                 HardcoreForced(req.template_slots, Range(req.available),
                                req.hardcore_required))

(* C1: no returned comp contains a class of the exclude set. *)
C1_NoExcludedClass ==
    Returned => \A comp \in ReturnedComps : Range(comp) \cap req.exclude = {}

(* C1 witness: comps are returned although an excluded class stood in a pool. *)
C1_Witness ==
    /\ Returned
    /\ results # <<>>
    /\ \E i \in 1..Len(slot_pools) : Range(slot_pools[i]) \cap req.exclude # {}

(* C2: every returned comp contains every must-include class, also when the   *)
(* class was injected into a pool and slots were forced or hardcore-locked.   *)
C2_MustIncludeSubset ==
    Returned => \A comp \in ReturnedComps : Range(req.must_include) \subseteq Range(comp)

(* C2 witness: comps are returned for a hardcore request with a forced slot   *)
(* whose must-include class had to be injected into a pool.                   *)
C2_Witness ==
    /\ Returned
    /\ results # <<>>
    /\ req.hardcore_required
    /\ forced_slots # <<>>
    /\ req.must_include # <<>>
    /\ slot_pools # PoolsBeforeInjection

(* C3: the scorer is only called on comps that pass comp_matches_constraints  *)
(* for the request's five flags, so every returned comp passes them too.      *)
C3_ScoredOnlyIfConstraintsMet ==
    Returned =>
        \A comp \in Range(scored) \cup ReturnedComps :
            comp_matches_constraints(comp, req.flags.ports, req.flags.run_speed,
                req.flags.charm, req.flags.pet_heavy, req.flags.kiting)

(* C3 witness: comps are returned while a pick of the product that the        *)
(* duplicate rules let through fails a constraint flag.                       *)
C3_Witness ==
    /\ Returned
    /\ results # <<>>
    /\ \E k \in 1..ProductSize(slot_pools) :
          LET comp == Pick(slot_pools, Strides(slot_pools), k)
          IN /\ DuplicatesAllowed(comp, req.template_slots, req.boxing_mode, req.era)
             /\ ~comp_matches_constraints(comp, req.flags.ports, req.flags.run_speed,
                    req.flags.charm, req.flags.pet_heavy, req.flags.kiting)

(* C4: with fewer than two dps slots every returned comp has pairwise         *)
(* distinct classes.                                                          *)
C4_DistinctBelowTwoDps ==
    (Returned /\ DpsSlots(req.template_slots) < 2) =>
        \A comp \in ReturnedComps : Repeated(comp) = {}

(* C4 witness: comps are returned for a template with one dps slot although a *)
(* class stands in two pools.                                                 *)
C4_Witness ==
    /\ Returned
    /\ results # <<>>
    /\ DpsSlots(req.template_slots) = 1
    /\ \E c \in Classes : SharedBetweenPools(c)

(* C5: Enchanter occurs at most once in any returned comp, for every template *)
(* and boxing mode.                                                           *)
C5_EnchanterAtMostOnce ==
    Returned => \A comp \in ReturnedComps : Count(comp, "Enchanter") <= 1

(* C5 witness: comps are returned for a template with two or more dps slots   *)
(* although Enchanter stands in two pools.                                    *)
C5_Witness ==
    /\ Returned
    /\ results # <<>>
    /\ DpsSlots(req.template_slots) >= 2
    /\ SharedBetweenPools("Enchanter")

(* C6: for a template with two or more dps slots, a class that occurs more    *)
(* than once in a returned comp occupies only dps slots.                      *)
C6_RepeatsOnlyInDpsSlots ==
    (Returned /\ DpsSlots(req.template_slots) >= 2) =>
        \A comp \in ReturnedComps :
            \A i \in 1..Len(comp) :
                comp[i] \in Repeated(comp) => req.template_slots[i] = "dps"

(* C7: at most one class occurs more than once in a returned comp. *)
C7_AtMostOneRepeatedClass ==
    Returned => \A comp \in ReturnedComps : Cardinality(Repeated(comp)) <= 1

(* C8: under manual boxing a class that occurs more than once in a returned   *)
(* comp is a caster other than Enchanter, or Ranger in the luclin or pop era. *)
C8_ManualRepeatIsCasterOrBowRanger ==
    (Returned /\ req.boxing_mode = "manual") =>
        \A comp \in ReturnedComps :
            \A c \in Repeated(comp) :
                \/ c \in CASTER_DPS \ {"Enchanter"}
                \/ (c = "Ranger" /\ req.era \in {"luclin", "pop"})

---------------------------------------------------------------------------
(* Properties of force_constraints_into_slots *)

Forced == pc = "forced"

(* C9: no key of the forced map is the index of a tank or charm_tank slot. *)
C9_NeverForcesTank ==
    Forced => \A k \in DOMAIN forced_slots :
                  req.template_slots[k] \notin {"tank", "charm_tank"}

(* C9 witness: charm, pet and kiting requirements are all asked for and every  *)
(* slot but the tank slot ends up forced, so the next slot in line would be   *)
(* the tank.                                                                  *)
C9_Witness ==
    /\ Forced
    /\ req.flags.charm /\ req.flags.pet_heavy /\ req.flags.kiting
    /\ req.already_satisfied = {}
    /\ "tank" \in Range(req.template_slots)
    /\ DOMAIN forced_slots =
           {k \in 1..Len(req.template_slots) : req.template_slots[k] # "tank"}

(* C10: under hardcore focus every key of the forced map is the index of a    *)
(* dps slot, and the map is empty when the template has no dps slot.          *)
C10_HardcoreForcesOnlyDps ==
    (Forced /\ req.hardcore_required) =>
        /\ \A k \in DOMAIN forced_slots : req.template_slots[k] = "dps"
        /\ ("dps" \notin Range(req.template_slots) => forced_slots = <<>>)

(* C10 witness: a hardcore call forces a dps slot of a template that also has *)
(* healer, slow and cc slots.                                                 *)
C10_Witness ==
    /\ Forced
    /\ req.hardcore_required
    /\ forced_slots # <<>>
    /\ {"healer", "slow", "cc"} \subseteq Range(req.template_slots)

---------------------------------------------------------------------------
(* Hardcore locks *)

(* the class a returned comp holds in the first slot of the given name *)
ClassInSlot(comp, slot) ==
    comp[CHOOSE i \in 1..Len(comp) :
            /\ req.template_slots[i] = slot
            /\ \A j \in 1..(i - 1) : req.template_slots[j] # slot]

(* C11: under hardcore focus with the 6-box hardcore template every returned  *)
(* comp has Cleric in the healer slot, Shaman in the slow slot and Bard in    *)
(* the cc slot, whatever classes are available.                               *)
C11_HardcoreCoreLocked ==
    (Returned /\ req.hardcore_required /\ req.template_slots = HARDCORE_TEMPLATES[6]) =>
        \A comp \in ReturnedComps :
            /\ ClassInSlot(comp, "healer") = "Cleric"
            /\ ClassInSlot(comp, "slow") = "Shaman"
            /\ ClassInSlot(comp, "cc") = "Bard"

(* C12: with charm required, box size 2 and the Enchanter charm-tank mode,   *)
(* but Enchanter not available, no comp is returned and the defaults        *)
(* fallback is empty as well.                                               *)
C12_CharmTankWithoutEnchanterEmpty ==
    (/\ pc = "rendered"
     /\ req.require_charm
     /\ req.box_size = 2
     /\ req.two_box_mode = "ench_charm_tank"
     /\ "Enchanter" \notin Range(req.available)) =>
        /\ results = <<>>
        /\ filtered_defaults = <<>>

---------------------------------------------------------------------------
(* Must-include injection *)

(* the must-include classes the loop of lines 1036-1045 has to inject: *)
(* available, not excluded and in no pool built before the loop        *)
NeedsInjection ==
    {cls \in Range(req.must_include) :
        /\ cls \in Range(req.available)
        /\ cls \notin req.exclude
        /\ \A i \in 1..Len(PoolsBeforeInjection) : cls \notin Range(PoolsBeforeInjection[i])}

(* the slot the code picks for an injected class *)
InjectionSlot(cls) ==
    _best_slot_index_for_must_include(cls, req.template_slots,
        DOMAIN HardcoreForced(req.template_slots, Range(req.available),
                              req.hardcore_required))

(* C13: a must-include class that is available, not excluded and in no pool  *)
(* is appended to exactly one pool, the one _best_slot_index_for_must_include *)
(* picks, and every returned comp holds it in that slot; Ranger alone with    *)
(* the template tank, healer, dps lands in the dps slot.                      *)
C13_InjectedIntoBestSlot ==
    Returned =>
        \A cls \in NeedsInjection :
            /\ \A i \in 1..Len(slot_pools) :
                  cls \in Range(slot_pools[i]) <=> i = InjectionSlot(cls)
            /\ \A comp \in ReturnedComps : comp[InjectionSlot(cls)] = cls
            /\ (/\ req.must_include = <<"Ranger">>
                /\ req.template_slots = <<"tank", "healer", "dps">>)
                  => \A comp \in ReturnedComps : comp[3] = "Ranger"

(* C13 witness: comps are returned for must_include = {Ranger} and template  *)
(* tank, healer, dps when Ranger was in none of the three pools.              *)
C13_Witness ==
    /\ Returned
    /\ results # <<>>
    /\ req.must_include = <<"Ranger">>
    /\ req.template_slots = <<"tank", "healer", "dps">>
    /\ "Ranger" \in NeedsInjection

---------------------------------------------------------------------------
(* Ranking *)

(* the score the scorer gives a comp under the request *)
ScoreOf(comp) ==
    score_comp_explain(comp, Ratings(req.ratings), req.era, req.boxing_mode, req.start,
        req.flags.charm, req.template_slots, req.hardcore_required,
        req.flags.run_speed, req.flags.ports)

(* C14: the returned list is no longer than limit, its scores never increase, *)
(* and no surviving comp that was cut scores strictly higher than a returned *)
(* one.                                                                      *)
C14_TopLimitByScore ==
    Returned =>
        /\ Len(results) <= req.limit
        /\ \A i, j \in 1..Len(results) : i < j => results[i][1] >= results[j][1]
        /\ \A i \in 1..Len(results) :
              results[i][2] \in Range(scored) /\ results[i][1] = ScoreOf(results[i][2])
        /\ \A comp \in Range(scored) \ ReturnedComps :
              /\ Len(results) = req.limit
              /\ \A i \in 1..Len(results) : ScoreOf(comp) <= results[i][1]

(* C14 witness: more comps survive than the limit lets through, and a cut *)
(* comp scores lower than the last returned one.                          *)
C14_Witness ==
    /\ Returned
    /\ req.limit > 0
    /\ Len(scored) > req.limit
    /\ Len(results) = req.limit
    /\ results[1][1] > results[Len(results)][1]
    /\ \E comp \in Range(scored) \ ReturnedComps : ScoreOf(comp) < results[Len(results)][1]

---------------------------------------------------------------------------
(* Available classes *)

Listed == pc = "listed"

(* C15: get_available_classes returns the ascending, duplicate-free list of  *)
(* exactly the classes rated in the era or added for it, minus those removed *)
(* for it (a class both added and removed is absent), and the list depends   *)
(* on the inputs only.                                                       *)
C15_AvailableClasses ==
    Listed =>
        LET rated == IF req.ratings = "sample" /\ req.era \in {"ckv", "luclin", "pop"}
                     THEN DOMAIN Ratings("sample")[req.era] ELSE {}
            added == Range(EraEntry(req.ruleset.add_classes_by_era, req.era))
            removed == Range(EraEntry(req.ruleset.remove_classes_by_era, req.era))
        IN /\ Range(class_list) = {c \in Classes : (c \in rated \/ c \in added) /\ c \notin removed}
           /\ \A i, j \in 1..Len(class_list) :
                 i < j => ClassRank(class_list[i]) < ClassRank(class_list[j])
           /\ \A c \in added \cap removed : c \notin Range(class_list)
           /\ class_list = Sorted(Range(class_list))

(* C15 witness: the ruleset adds an unrated class and both adds and removes *)
(* another, and the set was iterated out of order.                          *)
C15_Witness ==
    /\ Listed
    /\ req.ratings = "sample" /\ req.era = "ckv"
    /\ "Beastlord" \in Range(class_list)
    /\ "Warrior" \in Range(EraEntry(req.ruleset.add_classes_by_era, req.era))
    /\ "Warrior" \in Range(EraEntry(req.ruleset.remove_classes_by_era, req.era))
    /\ Len(class_list) >= 14

---------------------------------------------------------------------------
(* Conflicting requests *)

(* must-include classes that are excluded or not available *)
Conflicting ==
    {cls \in Range(req.must_include) : cls \in req.exclude \/ cls \notin Range(req.available)}

(* C16: when a must-include class is also excluded, or is not available, the *)
(* call returns the empty list: the class is in no pool it was not in before *)
(* the must-include step, and no comp passes the filter.                     *)
C16_ConflictReturnsEmpty ==
    Returned /\ Conflicting # {} =>
        /\ results = <<>>
        /\ scored = <<>>
        /\ \A cls \in Conflicting, i \in 1..Len(slot_pools) :
              cls \in Range(slot_pools[i]) => cls \in Range(PoolsBeforeInjection[i])

(* C16 witness: one must-include class is unavailable, another is excluded  *)
(* while standing in a pool, and every slot has candidates to enumerate.    *)
C16_Witness ==
    /\ Returned
    /\ \E cls \in Range(req.must_include) : cls \notin Range(req.available)
    /\ \E cls \in Range(req.must_include) \cap req.exclude :
          \E i \in 1..Len(slot_pools) : cls \in Range(slot_pools[i])
    /\ \A i \in 1..Len(slot_pools) : slot_pools[i] # <<>>
    /\ results = <<>>

---------------------------------------------------------------------------
(* Determinism *)

(* the list the call returns when the must_include set is iterated as `listing` *)
ResultsIterating(listing) ==
    LET r == [req EXCEPT !.must_include = listing]
        hardcore_forced == HardcoreForced(req.template_slots, Range(req.available),
                                          req.hardcore_required)
    IN Ranked(r, PicksToScore(r, InjectMust(listing, PoolsBeforeInjection, r,
                                            DOMAIN hardcore_forced)))

(* C17: the returned list is a function of the arguments: it equals the list *)
(* computed with the must_include set iterated in class order, whatever      *)
(* order the call iterated it in, ties at the cut-off included.              *)
C17_Deterministic ==
    Returned => results = ResultsIterating(Sorted(Range(req.must_include)))

(* C17 witness: two must-include classes are injected, the set was iterated   *)
(* against class order, and the cut-off falls between comps of equal score.   *)
C17_Witness ==
    /\ Returned
    /\ Cardinality(NeedsInjection) >= 2
    /\ req.must_include # Sorted(Range(req.must_include))
    /\ Len(results) = req.limit
    /\ \E j \in 1..Len(scored) :
           /\ scored[j] \notin ReturnedComps
           /\ ScoreOf(scored[j]) = results[req.limit][1]

---------------------------------------------------------------------------
(* Template size *)

Rendered == pc = "rendered"

(* C18: for every box size from 2 to 6 and every focus, two-box mode, kiting *)
(* style and require_charm setting, the selected template has box_size slots *)
(* and every returned comp has one class for each of them.                   *)
C18_TemplateHasBoxSizeSlots ==
    req.box_size \in 2..6 =>
        /\ Len(req.template_slots) = req.box_size
        /\ Rendered => \A i \in 1..Len(results) :
                          /\ Len(results[i][2]) = req.box_size
                          /\ DOMAIN results[i][2] = DOMAIN req.template_slots

(* C18 witness: comps are returned for a 3-box request under the charm override. *)
C18_Witness ==
    /\ Rendered
    /\ req.box_size = 3 /\ req.require_charm
    /\ req.template_slots[1] = "charm_tank"
    /\ results # <<>>

---------------------------------------------------------------------------
(* Ports and run speed are never forced *)

(* the map the call returns with the two flags set to ports and run_speed *)
ForcedWith(ports, run_speed) ==
    force_constraints_into_slots(req.template_slots, req.available, ports, run_speed,
        req.flags.charm, req.flags.pet_heavy, req.flags.kiting, req.already_satisfied,
        req.hardcore_required)

(* C19: the forced map is the same for all four settings of require_ports and *)
(* require_run_speed, and it is empty when no other flag is set.              *)
C19_PortsAndRunSpeedNeverForced ==
    Forced =>
        /\ \A ports, run_speed \in BOOLEAN : ForcedWith(ports, run_speed) = forced_slots
        /\ (~req.flags.charm /\ ~req.flags.pet_heavy /\ ~req.flags.kiting)
              => forced_slots = <<>>

(* C19 witness: ports and run speed are the only requirements, a porter and a *)
(* run-speed class are available, the template has flex slots, and the map is *)
(* empty.                                                                     *)
C19_Witness ==
    /\ Forced
    /\ req.flags.ports /\ req.flags.run_speed
    /\ ~req.flags.charm /\ ~req.flags.pet_heavy /\ ~req.flags.kiting
    /\ PORTERS \subseteq Range(req.available)
    /\ RUN_SPEED \subseteq Range(req.available)
    /\ req.already_satisfied = {}
    /\ Len(_flex_slot_indices(req.template_slots, req.hardcore_required)) >= 2
    /\ forced_slots = <<>>

---------------------------------------------------------------------------
(* Greedy grouping of requirement sets *)

(* the requirement sets and the flex order of the call *)
CallReqs ==
    _build_requirement_sets(Range(req.available), req.flags.ports, req.flags.run_speed,
        req.flags.charm, req.flags.pet_heavy, req.flags.kiting, req.already_satisfied)

CallSlotOrder == _flex_slot_indices(req.template_slots, req.hardcore_required)

(* the classes every requirement set of the group holds *)
GroupPool(g) == {c \in Classes : \A i \in g : c \in CallReqs[i]}

(* g is a group the greedy step may take from the unassigned sets: no larger  *)
(* group of at most three has a common class, and no group of the same size   *)
(* has fewer common classes                                                   *)
BestAmong(g, unassigned) ==
    /\ g # {} /\ g \subseteq unassigned
    /\ GroupPool(g) # {}
    /\ \A h \in SUBSET unassigned :
          (h # {} /\ Cardinality(h) <= 3 /\ GroupPool(h) # {}) =>
              /\ Cardinality(h) <= Cardinality(g)
              /\ Cardinality(h) = Cardinality(g) =>
                    Cardinality(GroupPool(h)) >= Cardinality(GroupPool(g))

(* groups[j] is the group whose intersection went into the j-th flex slot *)
GreedyAssignment(groups) ==
    LET m == Len(groups)
        n == Len(CallReqs)
        assigned(j) == UNION {groups[i] : i \in 1..(j - 1)}
    IN /\ DOMAIN forced_slots = {CallSlotOrder[j] : j \in 1..m}
       /\ \A j \in 1..m :
             /\ BestAmong(groups[j], (1..n) \ assigned(j))
             /\ forced_slots[CallSlotOrder[j]] = GroupPool(groups[j])
       /\ \A i, j \in 1..m : i # j => groups[i] \cap groups[j] = {}
       /\ (assigned(m + 1) = 1..n \/ m = Len(CallSlotOrder))

(* C20: the forced pools are the non-empty intersections of disjoint groups  *)
(* of requirement sets, each group the largest (up to three) and then the    *)
(* most restrictive among the sets still unassigned, placed in flex order    *)
(* until requirements or flex slots run out; with at least as many flex      *)
(* slots as requirement sets every set contains some forced pool.            *)
C20_GreedyGrouping ==
    Forced =>
        LET m == Cardinality(DOMAIN forced_slots)
            n == Len(CallReqs)
        IN /\ m <= Len(CallSlotOrder)
           /\ \E groups \in [1..m -> (SUBSET (1..n)) \ {{}}] : GreedyAssignment(groups)
           /\ Len(CallSlotOrder) >= n =>
                 \A i \in 1..n : \E k \in DOMAIN forced_slots : forced_slots[k] \subseteq CallReqs[i]

(* C20 witness: three requirement sets, two of which share a class: the pair *)
(* fills the first flex slot with their intersection and the third set the   *)
(* second slot.                                                              *)
C20_Witness ==
    /\ Forced
    /\ Len(CallReqs) = 3
    /\ Cardinality(DOMAIN forced_slots) = 2
    /\ forced_slots[CallSlotOrder[1]] = CallReqs[2] \cap CallReqs[3]
    /\ forced_slots[CallSlotOrder[2]] = CallReqs[1]
    /\ Cardinality(CallReqs[2]) > 1

---------------------------------------------------------------------------
(* Singleton slots *)

(* the template has a singleton slot whose defining class is not available *)
SingletonMissing ==
    \/ "charm_tank" \in Range(req.template_slots) /\ "Enchanter" \notin Range(req.available)
    \/ "kiter_swarm" \in Range(req.template_slots) /\ "Bard" \notin Range(req.available)

(* C21: with a charm_tank slot and no Enchanter available, or a kiter_swarm  *)
(* slot and no Bard available, the singleton slot's pool is empty and no     *)
(* comp is returned, whatever the must-include and exclude sets and flags.   *)
C21_SingletonMissingReturnsNothing ==
    (Returned /\ SingletonMissing) =>
        /\ results = <<>>
        /\ \A i \in 1..Len(slot_pools) :
              req.template_slots[i] \in {"charm_tank", "kiter_swarm"} => slot_pools[i] = <<>>

---------------------------------------------------------------------------
(* Score terms *)

Scored == pc = "scored"

(* the run-speed part of the constraint bonus was added *)
RunSpeedBonusAdded == detail.constraint_already_met_bonus \in {28, 28 + 15}

(* C22 as stated: the +28 bonus is added exactly when run speed is required *)
(* and the comp holds a class of RUN_SPEED.                                 *)
C22_BonusForAnyRunSpeedClass ==
    Scored =>
        (RunSpeedBonusAdded <=> (req.flags.run_speed /\ Range(req.comp) \cap RUN_SPEED # {}))

(* C22: the +28 bonus is added exactly when run speed is required and the *)
(* comp holds Bard or Shaman.                                             *)
C22_BonusForBardOrShaman ==
    Scored =>
        (RunSpeedBonusAdded <=>
            (req.flags.run_speed /\ Range(req.comp) \cap {"Bard", "Shaman"} # {}))

(* C22 witness: run speed is required, the comp's only run-speed classes are *)
(* Druid and Ranger, and the bonus is not added.                             *)
C22_Witness ==
    /\ Scored
    /\ req.flags.run_speed
    /\ {"Druid", "Ranger"} \subseteq Range(req.comp)
    /\ Range(req.comp) \cap {"Bard", "Shaman"} = {}
    /\ ~RunSpeedBonusAdded

(* C23: for the template tank, healer the slow adjustment is +20 when the  *)
(* comp holds Shaman or Enchanter and -25 otherwise, a difference of 45; for *)
(* every other template, two-slot ones included, it is 0.                    *)
C23_SlowAdjustmentOnlyTankHealer ==
    Scored =>
        LET has_slow == "Shaman" \in Range(req.comp) \/ "Enchanter" \in Range(req.comp)
        IN IF req.template_slots = <<"tank", "healer">>
           THEN /\ has_slow => detail.slow_bonus_or_penalty = 20
                /\ ~has_slow => detail.slow_bonus_or_penalty = 20 - 45
           ELSE detail.slow_bonus_or_penalty = 0

(* C23 witness: a two-slot template other than tank, healer is scored for a *)
(* comp without a slow class and gets no penalty.                           *)
C23_Witness ==
    /\ Scored
    /\ Len(req.template_slots) = 2
    /\ req.template_slots # <<"tank", "healer">>
    /\ Range(req.comp) \cap SLOWERS = {}
    /\ detail.slow_bonus_or_penalty = 0

---------------------------------------------------------------------------
(* Pool sizes *)

(* C24: every pool the cartesian product is taken over has at most 10 classes. *)
C24_PoolsAtMostTen ==
    Returned => \A i \in 1..Len(slot_pools) : Len(slot_pools[i]) <= 10

---------------------------------------------------------------------------
(* Partner pools *)

(* the defining class of the mode a partner slot belongs to *)
DefiningClass(slot) ==
    IF slot = "charm_partner" THEN "Enchanter"
    ELSE IF slot = "kite_partner_swarm" THEN "Bard"
    ELSE "None"

(* C25: the pool role_candidates returns for charm_partner never holds *)
(* Enchanter and the pool for kite_partner_swarm never holds Bard.     *)
C25_PartnerPoolLacksDefiningClass ==
    Returned =>
        \A i \in 1..Len(req.template_slots) :
            LET slot == req.template_slots[i]
            IN slot \in {"charm_partner", "kite_partner_swarm"} =>
                  DefiningClass(slot) \notin
                      Range(role_candidates(req.available, Ratings(req.ratings), req.era, slot,
                                            req.boxing_mode, req.start, req.flags.charm))

---------------------------------------------------------------------------
(* The traditional duo *)

(* the scenario: tank, healer; no flags, no class filters; manual, fresh *)
PlainDuo ==
    /\ Returned
    /\ req.template_slots = <<"tank", "healer">>
    /\ req.flags = NoFlags /\ ~req.hardcore_required
    /\ req.must_include = <<>> /\ req.exclude = {}
    /\ req.boxing_mode = "manual" /\ req.start = "fresh"
    /\ results # <<>>

(* the tanking rating of a class in the request's era *)
TankingOf(cls) == get_score(Ratings(req.ratings), req.era, cls, "tanking")

(* C26 as stated: in the plain duo scenario the top comp's tank slot holds an *)
(* available tank class with the highest tanking rating.                      *)
C26_TopTankHasHighestTanking ==
    PlainDuo =>
        LET top == results[1][2][1]
        IN /\ top \in TANKS \cap Range(req.available)
           /\ \A c \in TANKS \cap Range(req.available) : TankingOf(top) >= TankingOf(c)

(* C26: in the plain duo scenario the top comp's tank slot holds an available *)
(* tank class, and no surviving comp scores higher than the top comp.         *)
C26_TopTankIsBestScoredTank ==
    PlainDuo =>
        /\ results[1][2][1] \in TANKS \cap Range(req.available)
        /\ \A j \in 1..Len(scored) : ScoreOf(scored[j]) <= results[1][1]

(* C26 witness: the top comp's tank is Shadowknight although Warrior, with a *)
(* higher tanking rating, is available.                                      *)
C26_Witness ==
    /\ PlainDuo
    /\ results[1][2][1] = "Shadowknight"
    /\ "Warrior" \in Range(req.available)
    /\ TankingOf("Warrior") > TankingOf("Shadowknight")

---------------------------------------------------------------------------
(* Slot order *)

(* the surviving comps of a request with their scores *)
SurvivorsOf(r) ==
    LET hardcore_forced ==
            HardcoreForced(r.template_slots, Range(r.available), r.hardcore_required)
        forced ==
            force_constraints_into_slots(r.template_slots, r.available, r.flags.ports,
                r.flags.run_speed, r.flags.charm, r.flags.pet_heavy, r.flags.kiting,
                AlreadySatisfied(r.template_slots, Range(r.available), r.flags.charm,
                                 r.hardcore_required),
                r.hardcore_required)
        pools == InjectMust(r.must_include, InitialPools(r, forced, hardcore_forced), r,
                            DOMAIN hardcore_forced)
        comps == PicksToScore(r, pools)
    IN {<<score_comp_explain(comps[j], Ratings(r.ratings), r.era, r.boxing_mode, r.start,
                r.flags.charm, r.template_slots, r.hardcore_required, r.flags.run_speed,
                r.flags.ports), comps[j]>> : j \in 1..Len(comps)}

(* a comp of the reordered template put back in the canonical slot order *)
InCanonicalOrder(comp) ==
    [j \in 1..Len(comp) |-> comp[CHOOSE i \in 1..Len(comp) : req.order[i] = j]]

(* C27: a call with the slot names reordered yields, with each comp put back *)
(* in the canonical order, the surviving comps and scores of the canonical   *)
(* template.                                                                 *)
C27_SlotOrderIrrelevant ==
    Returned =>
        {<<ScoreOf(scored[j]), InCanonicalOrder(scored[j])>> : j \in 1..Len(scored)}
            = SurvivorsOf([req EXCEPT !.template_slots = req.canonical])

---------------------------------------------------------------------------
(* Availability *)

(* C28: every class of every returned comp is in the available list of the *)
(* call.                                                                   *)
C28_OnlyAvailableClasses ==
    Returned => \A comp \in ReturnedComps : Range(comp) \subseteq Range(req.available)

(* C28 witness: a roster that lacks classes, a forced pool and an injected *)
(* must-include class, with comps returned.                               *)
C28_Witness ==
    /\ Returned
    /\ Range(req.available) # RosterFull
    /\ DOMAIN forced_slots # {}
    /\ NeedsInjection # {}
    /\ results # <<>>

---------------------------------------------------------------------------
(* The tank slot *)

(* C29: in every returned comp the class in a tank slot is a member of TANKS. *)
C29_TankSlotHoldsTank ==
    Returned =>
        \A comp \in ReturnedComps :
            \A i \in 1..Len(comp) : req.template_slots[i] = "tank" => comp[i] \in TANKS

(* C29, amended: in every returned comp the class in a tank slot is a member *)
(* of TANKS or a must-include class that stood in no pool and for which      *)
(* _best_slot_index_for_must_include picks that slot; constraint forcing     *)
(* never touches a tank slot.                                                *)
C29_TankSlotHoldsTankOrInjected ==
    Returned =>
        /\ \A k \in DOMAIN forced_slots : req.template_slots[k] # "tank"
        /\ \A comp \in ReturnedComps :
              \A i \in 1..Len(comp) :
                  req.template_slots[i] = "tank" =>
                      \/ comp[i] \in TANKS
                      \/ comp[i] \in NeedsInjection /\ InjectionSlot(comp[i]) = i

(* C29 witness: Monk is required with the template tank, healer, stands in *)
(* neither pool, and comes back in the tank slot of a returned comp.        *)
C29_Witness ==
    /\ Returned
    /\ req.template_slots = <<"tank", "healer">>
    /\ "Monk" \in NeedsInjection
    /\ \E comp \in ReturnedComps : comp[1] = "Monk"
    /\ \E cls \in TANKS : cls \in Range(PoolsBeforeInjection[1])

---------------------------------------------------------------------------
(* Frame *)

=============================================================================
